---- MODULE Spec2Model ----
(***************************************************************************)
(* A model of the Lilac core: the render loop (core/render.c), the node    *)
(* object (core/node.c), the script interpreter (core/vm.c), the string    *)
(* object (core/istr.c) and the program entry point (core/lilac.c).        *)
(*                                                                         *)
(* The modules keep their state in file-scope variables (m_render, m_st,   *)
(* ...); the model keeps the same names.  A public function that runs to   *)
(* completion is one action.  render_go and vm_run call back into code of  *)
(* their callers (preparation functions, node functions, operation         *)
(* functions); they are split at those calls, and the variable "calls"     *)
(* holds the C call stack so that the model knows whose code is running.   *)
(* raiseErrGlobal ends the process: err becomes "error" and no action is   *)
(* enabled any more.                                                       *)
(***************************************************************************)
EXTENDS Integers, Sequences, FiniteSets, TLC

(***************************************************************************)
(* Bounds of the model.                                                    *)
(***************************************************************************)

\* Largest output image width and height tried (the header accepts 1..16384).
MaxDim == 2

\* Largest number of registered preparation functions tried.
MaxPrep == 2

\* Largest number of render_go calls that are started in one run.
MaxGo == 2

\* Largest number of node_invoke calls nested inside each other.
MaxInvokeNest == 2

\* Largest number of node objects that are defined in one run.
MaxNodes == 2

\* Largest graph-depth limit tried (the header accepts 1..16384).
MaxDepth == 1

\* Largest stack-height limit tried (the header accepts 1..16384).
MaxStack == 2

\* Largest name-limit tried (the header accepts 0..16384).
MaxNames == 2

\* Largest number of groups that are open at the same time.
MaxGroup == 2

\* Largest number of string objects that are allocated at the same time.
MaxData == 2

\* Largest number of operations that are registered.
MaxOps == 1

\* The number of constant nodes in the scripts that define select nodes.
MaxGraph == 4

\* Largest number of istr_concat calls that a caller of istr.c makes.
MaxConcat == 1

\* Largest width and height of an image of the tile renderer.
MaxImage == 129

\* Largest width and height of an image of the programmable shader.
MaxShade == 3

\* Largest number of pixels of an image with external nodes.
MaxPixels == 258

\* Largest external-ram-kib tried (the header accepts 1..1048576).
MaxRam == 1

(***************************************************************************)
(* Program constants.                                                      *)
(***************************************************************************)

\* render.c: the maximum number of preparation functions.
MAX_PREP_COUNT == 1024

\* vm.c: the maximum number of open groups.
MAX_GROUP_DEPTH == 16384

\* vm.c: the maximum number of registered operations.
MAX_OPERATION_COUNT == 16384

\* vm.c: the initial capacities of the growable arrays.
VBLOCK_INITIAL == 16

IBLOCK_INITIAL == 16

OBLOCK_INITIAL == 16

\* istr.c: the maximum length of a string object.
MAX_DATA_LEN == 16383

\* vm.h: the types of a value on the interpreter stack.
VM_TYPE_UNDEF == 0

VM_TYPE_FLOAT == 1

VM_TYPE_COLOR == 2

VM_TYPE_STRING == 3

VM_TYPE_NODE == 4

\* The NULL pointer (for NODE pointers, ISTR_DATA pointers and the arrays).
NULL == 0

\* The NULL function pointer.
NULLFP == "NULL"

\* node_select.c: the initial and the maximum capacity of a palette.
INIT_RECORDS == 16

MAX_RECORDS == 16384

\* The accumulator of node_select.c when it is empty (m_ax is NULL).
NullSelect ==
  [nIndex |-> NULL, nDefault |-> NULL,
   pal |-> [pData |-> <<>>, cap |-> 0, count |-> 0]]

\* Preparation functions: prep_external of base/node_external.c, and one for
\* the code of any other collaborator, which may call the public functions.
PrepFns == {"prep_external", "prep_client"}

\* Node functions: node_constant of base/node_constant.c, and one for the
\* code of any other collaborator, which may call the public functions.
NodeFns == {"node_constant", "node_client"}

\* The names of the operations that plugin_init registers.
OP_CONSTANT == <<"c", "o", "n", "s", "t", "a", "n", "t">>

OP_EXTERNAL == <<"e", "x", "t", "e", "r", "n", "a", "l">>

OP_SELECT_NEW == <<"s", "e", "l", "e", "c", "t", "_", "n", "e", "w">>

OP_SELECT_MAP == <<"s", "e", "l", "e", "c", "t", "_", "m", "a", "p">>

OP_SELECT_FINISH ==
  <<"s", "e", "l", "e", "c", "t", "_", "f", "i", "n", "i", "s", "h">>

\* Packed ARGB colours that appear in the model.
Colors == {10, 11}

\* Floating-point values that appear in the model: 0 is 0.0, 1 is 1.0.
Floats == {0, 1}

\* Strings are sequences of characters.  The contents of quoted string
\* entities: the empty string, a string, a string with an illegal character.
StringLits == {<<>>, <<"a">>, <<"\"">>}

\* The contents of curly string entities: two colours, one of the wrong
\* length and one with a character that is no base-16 digit.
ColorLits == {<<"0", "0", "0", "0", "0", "0", "0", "A">>,
              <<"0", "0", "0", "0", "0", "0", "0", "b">>,
              <<"0", "A">>,
              <<"0", "0", "0", "0", "0", "0", "0", "G">>}

\* The tokens of numeric entities: two numbers and one that strtod does not
\* consume to its end.
NumLits == {<<"0">>, <<"1">>, <<"1", "x">>}

\* The names of variable, constant, assign and get entities: two names and
\* one that validName rejects.
Names == {<<"x">>, <<"y">>, <<"9">>}

\* The names of operations: one name and one that validName rejects.
OpNames == {<<"f">>, <<"_">>}

VARIABLES
  \* ---- lilac.c
  cfg,        \* the configuration variables read by getConfigInt
  err,        \* "none", or "error" once raiseErrGlobal has called exit(1),
              \* or "fault" once the process has died of an invalid access
  \* ---- the C call stack and what the last public call did
  calls,      \* frames of the functions that are running, innermost last
  last,       \* the last call of a public function: its name and outcome
  \* ---- node.c
  nodes,      \* the NODE objects allocated so far; a NODE pointer is an
              \* index into this sequence, NULL is 0
  \* ---- node_select.c
  m_ax,       \* the accumulator: the SELECT_NODE that is being built
  \* ---- lilac.c of the tile renderer (src/lilac.c)
  lilac,      \* its static variables: m_state, the metrics of the image
              \* and of the tiles, m_finished and the current tile
  \* ---- pshade.c
  pshade,     \* m_L and the static variables s_last_x and s_last_y of
              \* pshade_pixel
  \* ---- node_external.c
  ext,        \* m_fp, m_pBuf, m_offs and m_plen
  \* ---- render.c
  m_render, m_offs, m_x, m_y, m_w, m_h,
  m_pl,       \* the chain of PREP_LINK, first to last (m_plCount is its length)
  goStarted,  \* how many render_go calls have passed their checks
  goReturned, \* how many render_go calls have returned
  rootLog,    \* <<offset, x, y>> as the render queries answer at each call of
              \* the root node in the current rendering
  raster,     \* the colours stored through ps in the current rendering
  \* ---- vm.c
  m_called, m_run,
  m_ops_dict, \* operation name -> index into m_ops
  m_ops,      \* the registered operation functions (OBLOCK), NULL before
              \* the first vm_register
  m_gs,       \* the grouping stack (IBLOCK), NULL before vm_run
  m_st,       \* the interpreter stack (VBLOCK), NULL before vm_run
  m_ns_dict,  \* variable or constant name -> index into m_ns
  m_ns_flag,  \* the constant flags, 32 names to a word (IBLOCK)
  m_ns,       \* the values of the variables and constants (VBLOCK)
  prev,       \* the call before last, when it was a push that succeeded
  declared,   \* name -> the value given at its declaration, for the names
              \* that were declared as constants
  \* ---- istr.c
  heap,       \* the ISTR_DATA blocks; an ISTR_DATA pointer is an index
  ps          \* an ISTR structure of a caller of vm_push_s and vm_pop_s

sysVars == <<cfg, err, calls, last, nodes, m_ax, lilac, pshade, ext>>

renderVars == <<m_render, m_offs, m_x, m_y, m_w, m_h, m_pl,
                goStarted, goReturned, rootLog, raster>>

vmVars == <<m_called, m_run, m_ops_dict, m_ops, m_gs, m_st, m_ns_dict,
            m_ns_flag, m_ns, prev, declared, heap, ps>>

vars == <<sysVars, renderVars, vmVars>>

(***************************************************************************)
(* The call stack.                                                         *)
(***************************************************************************)

Top == calls[Len(calls)]

Push(f) == Append(calls, f)

Pop == SubSeq(calls, 1, Len(calls) - 1)

\* The code of a caller of the core is running: the program's top level, or
\* a preparation function, or a node function.
ClientRuns ==
  /\ err = "none"
  /\ IF calls = <<>> THEN TRUE ELSE Top.fn \in {"prep", "node", "op"}

\* The frame of the innermost render_go call that is running, or 0.
GoFrameIx ==
  LET S == {i \in 1..Len(calls) : calls[i].fn = "render_go"}
  IN  IF S = {} THEN 0 ELSE CHOOSE i \in S : \A j \in S : j <= i

\* The state of the render loop as the specification names it.
Phase ==
  IF GoFrameIx = 0 THEN "Idle"
  ELSE IF calls[GoFrameIx].phase = "prep" THEN "Preparing" ELSE "Rendering"

NoCall == [fn |-> "none"]

\* What a call of a public function did: ok is FALSE when it raised an error.
\* phase and after tell when the call was made.
Call(fn, arg, ok, ret) ==
  [fn |-> fn, arg |-> arg, ok |-> ok, ret |-> ret, phase |-> Phase,
   after |-> goReturned]

\* A raiseErrGlobal that reports and returns to its caller.
raiseErrGlobal_return(fn, arg) ==
  /\ err' = err
  /\ last' = Call(fn, arg, FALSE, 0)
  /\ UNCHANGED <<cfg, pshade, ext, lilac, m_ax, calls, nodes>>

\* raiseErrGlobal: report and exit(1).  Nothing runs after it.
Raise(fn, arg) ==
  /\ err' = "error"
  /\ last' = Call(fn, arg, FALSE, 0)
  /\ UNCHANGED <<cfg, pshade, ext, lilac, m_ax, calls, nodes>>

(***************************************************************************)
(* node.c                                                                  *)
(***************************************************************************)

\* A node_define that does not compare the depth with graph-depth.
node_define_deep(pInstance, fp, depth) ==
  /\ ClientRuns
  /\ UNCHANGED vmVars
  /\ Len(nodes) < MaxNodes
  /\ IF fp = NULLFP \/ depth < 1
       THEN Raise("node_define", depth)
       ELSE /\ nodes' = Append(nodes, [pInstance |-> pInstance, fp |-> fp,
                                       depth |-> depth])
            /\ last' = Call("node_define", depth, TRUE, Len(nodes) + 1)
            /\ UNCHANGED <<cfg, pshade, ext, lilac, m_ax, err, calls>>
  /\ UNCHANGED renderVars

\* node_define: allocate a node; the depth is checked against graph-depth.
node_define(pInstance, fp, depth) ==
  /\ ClientRuns
  /\ UNCHANGED vmVars
  /\ Len(nodes) < MaxNodes
  /\ IF fp = NULLFP \/ depth < 1 \/ depth > cfg.depth
       THEN Raise("node_define", depth)
       ELSE /\ nodes' = Append(nodes, [pInstance |-> pInstance, fp |-> fp,
                                       depth |-> depth])
            /\ last' = Call("node_define", depth, TRUE, Len(nodes) + 1)
            /\ UNCHANGED <<cfg, pshade, ext, lilac, m_ax, err, calls>>
  /\ UNCHANGED renderVars

\* The body of node_invoke: the state check, the parameter check, and the
\* call through the function pointer (a new frame on the call stack).
\* base is the call stack of the caller.  The frame of a node function
\* tells how far the function has come (pc), and which nodes it has invoked
\* (kids) with which colour from the first of them (icol).
NodeInvokeOn(base, pNode, root) ==
  IF m_render = 0 \/ pNode = NULL
    THEN Raise("node_invoke", pNode) /\ UNCHANGED rootLog
    ELSE /\ calls' = Append(base, [fn |-> "node", pNode |-> pNode,
                                   root |-> root, pc |-> "start",
                                   kids |-> <<>>, icol |-> 0])
         /\ last' = Call("node_invoke", pNode, TRUE, 0)
         /\ rootLog' = IF root THEN Append(rootLog, <<m_offs, m_x, m_y>>)
                               ELSE rootLog
         /\ UNCHANGED <<cfg, pshade, ext, lilac, m_ax, err, nodes>>

NodeInvokeBody(pNode, root) == NodeInvokeOn(calls, pNode, root)

\* node_invoke called by a collaborator (a node function invoking a node it
\* refers to, or any other code).
node_invoke(pNode) ==
  /\ ClientRuns
  /\ UNCHANGED vmVars
  /\ Cardinality({i \in 1..Len(calls) : calls[i].fn = "node"}) < MaxInvokeNest
  /\ NodeInvokeBody(pNode, FALSE)
  /\ UNCHANGED <<m_render, m_offs, m_x, m_y, m_w, m_h, m_pl,
                 goStarted, goReturned, raster>>

\* What a call of node_depth with a node can return.  The function ends
\* without a return statement, so its caller reads a value that no
\* statement of the function has set: whatever the register for the result
\* holds, which has nothing to do with the depth of the node.
DepthReturns == ((-1)..(MaxDepth + 2)) \cup {2147483647}

\* node_depth: the parameter check, and the end of the function.
node_depth(pNode) ==
  /\ ClientRuns
  /\ UNCHANGED vmVars
  /\ UNCHANGED renderVars
  /\ IF pNode = NULL
       THEN Raise("node_depth", pNode)
       ELSE \E d \in DepthReturns :
              /\ last' = Call("node_depth", pNode, TRUE, d)
              /\ UNCHANGED <<cfg, pshade, ext, lilac, m_ax, err, calls, nodes>>

\* The colours a node function can return.  node_constant returns the colour
\* in its instance data, and the function of another collaborator is taken
\* to do so too (it may call the public functions first); node_external
\* returns a pixel of its image, which can be any colour.
\* node_select returns what the second node_invoke of its frame returned,
\* which is the result of the last call.
NodeResults(n) ==
  IF nodes[n].fp = "node_external" THEN Colors
  ELSE IF nodes[n].fp = "node_select" THEN {last.ret}
  ELSE {nodes[n].pInstance.col}

\* The node function of the innermost frame has come to its return.
NodeDone ==
  /\ Top.fn = "node"
  /\ nodes[Top.pNode].fp = "node_select" => Top.pc = "value"

(***************************************************************************)
(* render.c                                                                *)
(***************************************************************************)

\* render_prepare: append a link to the chain of preparation functions.
render_prepare(fp) ==
  /\ ClientRuns
  /\ UNCHANGED vmVars
  /\ Len(m_pl) < MaxPrep
  /\ IF m_render = 1 \/ fp = NULLFP \/ Len(m_pl) >= MAX_PREP_COUNT
       THEN Raise("render_prepare", fp) /\ UNCHANGED renderVars
       ELSE /\ m_pl' = Append(m_pl, fp)
            /\ last' = Call("render_prepare", fp, TRUE, 0)
            /\ UNCHANGED <<cfg, pshade, ext, lilac, m_ax, err, calls, nodes>>
            /\ UNCHANGED <<m_render, m_offs, m_x, m_y, m_w, m_h,
                           goStarted, goReturned, rootLog, raster>>

\* A render_go that does not check for render mode.
render_go_unchecked(pNode) ==
  /\ ClientRuns
  /\ UNCHANGED vmVars
  /\ goStarted < MaxGo
  /\ IF pNode = NULL
       THEN Raise("render_go", pNode) /\ UNCHANGED renderVars
       ELSE /\ calls' = Push([fn |-> "render_go", pNode |-> pNode, pl |-> 1,
                              phase |-> "prep", called |-> <<>>])
            /\ goStarted' = goStarted + 1
            /\ last' = Call("render_go", pNode, TRUE, 0)
            /\ UNCHANGED <<cfg, pshade, ext, lilac, m_ax, err, nodes>>
            /\ UNCHANGED <<m_render, m_offs, m_x, m_y, m_w, m_h, m_pl,
                           goReturned, rootLog, raster>>

\* render_go, up to the loop over the preparation functions: the state
\* check and the parameter check.  pl starts at m_plFirst.
render_go(pNode) ==
  /\ ClientRuns
  /\ UNCHANGED vmVars
  /\ goStarted < MaxGo
  /\ IF m_render = 1 \/ pNode = NULL
       THEN Raise("render_go", pNode) /\ UNCHANGED renderVars
       ELSE /\ calls' = Push([fn |-> "render_go", pNode |-> pNode, pl |-> 1,
                              phase |-> "prep", called |-> <<>>])
            /\ goStarted' = goStarted + 1
            /\ last' = Call("render_go", pNode, TRUE, 0)
            /\ UNCHANGED <<cfg, pshade, ext, lilac, m_ax, err, nodes>>
            /\ UNCHANGED <<m_render, m_offs, m_x, m_y, m_w, m_h, m_pl,
                           goReturned, rootLog, raster>>

\* render_go, one turn of the loop over the chain: (pl->fp)().
render_go_prep ==
  /\ err = "none" /\ calls # <<>>
  /\ UNCHANGED vmVars
  /\ Top.fn = "render_go" /\ Top.phase = "prep"
  /\ Len(m_pl) > 0 /\ Top.pl <= Len(m_pl)
  /\ calls' = Append([calls EXCEPT ![Len(calls)].called =
                                       Append(@, m_pl[Top.pl])],
                     [fn |-> "prep", fp |-> m_pl[Top.pl]])
  /\ UNCHANGED <<cfg, pshade, ext, lilac, m_ax, err, last, nodes>>
  /\ UNCHANGED renderVars

\* A preparation function returns; the loop goes on to pl->pNext.
prep_return ==
  /\ err = "none" /\ calls # <<>>
  /\ UNCHANGED vmVars
  /\ Top.fn = "prep"
  /\ calls' = [Pop EXCEPT ![Len(calls) - 1].pl = @ + 1]
  /\ UNCHANGED <<cfg, pshade, ext, lilac, m_ax, err, last, nodes>>
  /\ UNCHANGED renderVars

\* A render_go whose loop over the chain stops one link early.
render_go_enter_early ==
  /\ err = "none" /\ calls # <<>>
  /\ UNCHANGED vmVars
  /\ Top.fn = "render_go" /\ Top.phase = "prep"
  /\ (Len(m_pl) = 0 \/ Top.pl >= Len(m_pl))
  /\ m_render' = 1
  /\ m_offs' = 0 /\ m_x' = 0 /\ m_y' = 0
  /\ m_w' = cfg.w /\ m_h' = cfg.h
  /\ calls' = [calls EXCEPT ![Len(calls)].phase = "pixel"]
  /\ rootLog' = <<>> /\ raster' = <<>>
  /\ UNCHANGED <<cfg, pshade, ext, lilac, m_ax, err, last, nodes, m_pl, goStarted,
                 goReturned>>

\* render_go, after the loop over the chain: enter render mode, initialise
\* the pixel position, open the image writer (which can fail), and enter
\* the two loops with m_y = 0 and m_x = 0.
render_go_enter ==
  /\ err = "none" /\ calls # <<>>
  /\ UNCHANGED vmVars
  /\ Top.fn = "render_go" /\ Top.phase = "prep"
  /\ (Len(m_pl) = 0 \/ Top.pl > Len(m_pl))
  /\ m_render' = 1
  /\ m_offs' = 0 /\ m_x' = 0 /\ m_y' = 0
  /\ m_w' = cfg.w /\ m_h' = cfg.h
  /\ \E opened \in BOOLEAN :
       IF opened
         THEN /\ calls' = [calls EXCEPT ![Len(calls)].phase = "pixel"]
              /\ rootLog' = <<>> /\ raster' = <<>>
              /\ UNCHANGED err
         ELSE /\ calls' = [calls EXCEPT ![Len(calls)].phase = "pixel"]
              /\ err' = "error"
              /\ UNCHANGED <<rootLog, raster>>
  /\ UNCHANGED last
  /\ UNCHANGED <<cfg, pshade, ext, lilac, m_ax, nodes, m_pl, goStarted, goReturned>>

\* render_go, the body of the inner loop up to the call of the root node.
render_go_pixel ==
  /\ err = "none" /\ calls # <<>>
  /\ UNCHANGED vmVars
  /\ Top.fn = "render_go" /\ Top.phase = "pixel"
  /\ m_y < m_h /\ m_x < m_w
  /\ NodeInvokeBody(Top.pNode, TRUE)
  /\ UNCHANGED <<m_render, m_offs, m_x, m_y, m_w, m_h, m_pl,
                 goStarted, goReturned, raster>>

\* A render_go that increments m_offs once for each scanline instead of once
\* for each pixel.
node_return_offs_per_line ==
  /\ err = "none" /\ calls # <<>>
  /\ UNCHANGED vmVars
  /\ NodeDone
  /\ \E col \in NodeResults(Top.pNode) :
       /\ calls' = Pop
       /\ last' = Call("node_invoke", Top.pNode, TRUE, col)
       /\ IF Top.root
            THEN /\ raster' = Append(raster, col)
                 /\ IF m_x + 1 < m_w
                      THEN m_x' = m_x + 1 /\ m_y' = m_y /\ m_offs' = m_offs
                      ELSE /\ m_y' = m_y + 1
                           /\ m_offs' = m_offs + 1
                           /\ m_x' = IF m_y + 1 < m_h THEN 0 ELSE m_x + 1
            ELSE UNCHANGED <<raster, m_offs, m_x, m_y>>
  /\ UNCHANGED <<cfg, pshade, ext, lilac, m_ax, err, nodes>>
  /\ UNCHANGED <<m_render, m_w, m_h, m_pl, goStarted, goReturned, rootLog>>

\* A node function returns its colour.  When render_go called it, the colour
\* is stored through ps, m_offs and m_x are incremented, and at the end of a
\* scanline the scanline is written, m_y is incremented and, if another
\* scanline follows, m_x starts again at 0.
node_return ==
  /\ err = "none" /\ calls # <<>>
  /\ UNCHANGED vmVars
  /\ NodeDone
  /\ \E col \in NodeResults(Top.pNode) :
       /\ calls' = Pop
       /\ last' = Call("node_invoke", Top.pNode, TRUE, col)
       /\ IF Top.root
            THEN /\ raster' = Append(raster, col)
                 /\ m_offs' = m_offs + 1
                 /\ IF m_x + 1 < m_w
                      THEN m_x' = m_x + 1 /\ m_y' = m_y
                      ELSE /\ m_y' = m_y + 1
                           /\ m_x' = IF m_y + 1 < m_h THEN 0 ELSE m_x + 1
            ELSE UNCHANGED <<raster, m_offs, m_x, m_y>>
  /\ UNCHANGED <<cfg, pshade, ext, lilac, m_ax, err, nodes>>
  /\ UNCHANGED <<m_render, m_w, m_h, m_pl, goStarted, goReturned, rootLog>>

\* A render_go that returns without leaving render mode.
render_go_return_stay ==
  /\ err = "none" /\ calls # <<>>
  /\ UNCHANGED vmVars
  /\ Top.fn = "render_go" /\ Top.phase = "pixel"
  /\ m_y >= m_h
  /\ calls' = Pop
  /\ goReturned' = goReturned + 1
  /\ UNCHANGED <<cfg, pshade, ext, lilac, m_ax, err, last, nodes>>
  /\ UNCHANGED <<m_render, m_offs, m_x, m_y, m_w, m_h, m_pl, goStarted,
                 rootLog, raster>>

\* render_go, after the loops: close the file, leave render mode, return.
render_go_return ==
  /\ err = "none" /\ calls # <<>>
  /\ UNCHANGED vmVars
  /\ Top.fn = "render_go" /\ Top.phase = "pixel"
  /\ m_y >= m_h
  /\ m_render' = 0
  /\ calls' = Pop
  /\ goReturned' = goReturned + 1
  /\ UNCHANGED <<cfg, pshade, ext, lilac, m_ax, err, last, nodes>>
  /\ UNCHANGED <<m_offs, m_x, m_y, m_w, m_h, m_pl, goStarted, rootLog, raster>>

\* render_mode never raises an error.
render_mode ==
  /\ ClientRuns
  /\ UNCHANGED vmVars
  /\ last' = Call("render_mode", 0, TRUE, m_render)
  /\ UNCHANGED <<cfg, pshade, ext, lilac, m_ax, err, calls, nodes>>
  /\ UNCHANGED renderVars

\* The three position queries share one shape.
RenderQuery(fn, value) ==
  /\ ClientRuns
  /\ UNCHANGED vmVars
  /\ IF m_render = 0
       THEN Raise(fn, 0)
       ELSE /\ last' = Call(fn, 0, TRUE, value)
            /\ UNCHANGED <<cfg, pshade, ext, lilac, m_ax, err, calls, nodes>>
  /\ UNCHANGED renderVars

render_offset == RenderQuery("render_offset", m_offs)

render_X == RenderQuery("render_X", m_x)

render_Y == RenderQuery("render_Y", m_y)

(***************************************************************************)
(* istr.c: reference-counted strings.  The operators take the heap and     *)
(* give the heap as the function leaves it.                                *)
(***************************************************************************)

\* sizeof(ISTR_DATA), two int32_t and char s[2] with the padding to a
\* multiple of four, and the offset of s in it.
SIZEOF_ISTR_DATA == 12

OFFSETOF_S == 8

\* A block that is not allocated.  A block has the fields of ISTR_DATA, the
\* number of bytes that were allocated for it, and the characters that were
\* written from s on, without the nul that ends them.
FreeData == [refcount |-> 0, slen |-> 0, size |-> 0, s |-> <<>>]

FreeSlots(h) == {p \in DOMAIN h : h[p].refcount = 0}

\* An istr_reset that drops the reference and never frees the block.
istr_reset_keep(h, pRef) ==
  IF pRef = NULL THEN h
  ELSE [h EXCEPT ![pRef].refcount = @ - 1]

\* An istr_copy that shares the block without counting the reference.
istr_copy_uncounted(h, pDest, pSrc) ==
  [h |-> IF pDest = NULL THEN h
         ELSE IF h[pDest].refcount - 1 < 1
                THEN [h EXCEPT ![pDest] = FreeData]
                ELSE [h EXCEPT ![pDest].refcount = @ - 1],
   pRef |-> pSrc]

\* istr_reset: drop the reference; free the block with its last reference.
istr_reset(h, pRef) ==
  IF pRef = NULL THEN h
  ELSE IF h[pRef].refcount - 1 < 1
         THEN [h EXCEPT ![pRef] = FreeData]
         ELSE [h EXCEPT ![pRef].refcount = @ - 1]

\* istr_copy: reset the destination, then share the block of the source.
istr_copy(h, pDest, pSrc) ==
  LET h1 == istr_reset(h, pDest)
  IN  [h |-> IF pSrc = NULL THEN h1
             ELSE [h1 EXCEPT ![pSrc].refcount = @ + 1],
       pRef |-> pSrc]

\* istr_new: reset the structure, then allocate a block with one reference
\* unless the string is empty.
istr_new(h, pOld, pstr) ==
  LET h1 == istr_reset(h, pOld)
      p  == CHOOSE i \in FreeSlots(h1) : \A j \in FreeSlots(h1) : i <= j
  IN  IF Len(pstr) > MAX_DATA_LEN THEN [ok |-> FALSE, h |-> h, pRef |-> pOld]
      ELSE IF Len(pstr) > 0
        THEN [ok |-> TRUE, pRef |-> p,
              h |-> [h1 EXCEPT ![p] = [refcount |-> 1, slen |-> Len(pstr),
                                       size |-> SIZEOF_ISTR_DATA
                                                  + Len(pstr) - 1,
                                       s |-> pstr]]]
        ELSE [ok |-> TRUE, pRef |-> NULL, h |-> h1]

\* The characters and the nul that a block has room for from s on.
Room(d) == d.size - OFFSETOF_S

\* istr_concat with the values of the three structures; sameA and sameB
\* tell that pResult is the structure pA or pB.  With two strings that are
\* not empty sfull is computed, checked against the maximum and used for
\* the allocation and for slen; strcpy and strcat then write the characters
\* of A and of B and a nul.  ub tells that they wrote past the allocation.
istr_concat(h, pResult, pA, pB, sameA, sameB) ==
  IF pA = NULL /\ pB = NULL
    THEN [ok |-> TRUE, h |-> istr_reset(h, pResult), pRef |-> NULL,
          ub |-> FALSE]
  ELSE IF pA = NULL
    THEN [ok |-> TRUE, ub |-> FALSE, pRef |-> pB,
          h |-> IF sameB THEN h ELSE istr_copy(h, pResult, pB).h]
  ELSE IF pB = NULL
    THEN [ok |-> TRUE, ub |-> FALSE, pRef |-> pA,
          h |-> IF sameA THEN h ELSE istr_copy(h, pResult, pA).h]
  ELSE LET sfull == h[pB].slen + h[pB].slen
           p     == CHOOSE i \in FreeSlots(h) : \A j \in FreeSlots(h) : i <= j
           cat   == h[pA].s \o h[pB].s
           pData == [refcount |-> 1, slen |-> sfull,
                     size |-> SIZEOF_ISTR_DATA + sfull - 1, s |-> cat]
           h1    == [h EXCEPT ![p] = pData]
       IN  IF sfull > MAX_DATA_LEN
             THEN [ok |-> FALSE, h |-> h, pRef |-> pResult, ub |-> FALSE]
             ELSE [ok |-> TRUE, h |-> istr_reset(h1, pResult), pRef |-> p,
                   ub |-> Len(cat) + 1 > Room(pData)]

\* istr_ptr: the characters of the string.
istr_ptr(h, pRef) == IF pRef = NULL THEN <<>> ELSE h[pRef].s

(***************************************************************************)
(* vm.c: variants.  A VARIANT is a type and a union of int, double,        *)
(* uint32_t, ISTR and NODE pointer.  The int covers only the low half of   *)
(* the double and of a 64-bit pointer; the field hi is 1 when the high     *)
(* half of the union can hold bits that are not zero.                      *)
(***************************************************************************)

\* variant_init: memset to zero.
variant_init == [vtype |-> VM_TYPE_UNDEF, val |-> 0, hi |-> 0]

\* variant_reset: istr_reset for a string (which stores a NULL pointer);
\* then vtype and the int are cleared, the high half of the union stays.
variant_reset(h, pv) ==
  [v |-> [vtype |-> VM_TYPE_UNDEF, val |-> 0,
          hi |-> IF pv.vtype = VM_TYPE_STRING THEN 0 ELSE pv.hi],
   h |-> IF pv.vtype = VM_TYPE_STRING THEN istr_reset(h, pv.val) ELSE h]

\* variant_copy, for two different structures.  For a string the ISTR of
\* the destination is handed to istr_copy as it is after variant_reset,
\* without istr_init: ub tells that istr_copy then resets a pointer made
\* of the high half of what the destination held before.
variant_copy(h, pDest, pSrc) ==
  LET r == variant_reset(h, pDest)
  IN  IF pSrc.vtype = VM_TYPE_STRING
        THEN [v |-> [vtype |-> VM_TYPE_STRING, val |-> pSrc.val, hi |-> 0],
              h |-> istr_copy(r.h, NULL, pSrc.val).h,
              ub |-> r.v.hi # 0]
        ELSE [v |-> pSrc, h |-> r.h, ub |-> FALSE]

\* The high half of the bits of a double: zero for 0.0, not zero for 1.0.
FloatHi(f) == IF f = 0 THEN 0 ELSE 1

\* variant_setFloat, variant_setColor, variant_setString, variant_setNode
\* on a variant that variant_init has just cleared.
variant_setFloat(f) == [vtype |-> VM_TYPE_FLOAT, val |-> f, hi |-> FloatHi(f)]

variant_setColor(col) == [vtype |-> VM_TYPE_COLOR, val |-> col, hi |-> 0]

variant_setString(h, pRef) ==
  [v |-> [vtype |-> VM_TYPE_STRING, val |-> pRef, hi |-> 0],
   h |-> istr_copy(h, NULL, pRef).h]

variant_setNode(pn) == [vtype |-> VM_TYPE_NODE, val |-> pn, hi |-> 1]

(***************************************************************************)
(* vm.c: growable arrays.  Indices are those of the C code (from 0); the   *)
(* bank of the model is indexed from 1.                                    *)
(***************************************************************************)

\* The arrays before vm_run has allocated them (the pointers are NULL).
NullVBlock == [vmax |-> 0, vcount |-> 0, vcap |-> 0, pBank |-> <<>>]

NullIBlock == [imax |-> 0, icount |-> 0, icap |-> 0, pBank |-> <<>>]

vblock_alloc(max_cap) ==
  LET cap == IF max_cap < VBLOCK_INITIAL THEN max_cap ELSE VBLOCK_INITIAL
  IN  [vmax |-> max_cap, vcount |-> 0, vcap |-> cap,
       pBank |-> [k \in 1..cap |-> variant_init]]

\* A vblock_append that doubles the capacity whatever the maximum is.
vblock_append_double(pb) ==
  IF pb.vcount >= pb.vcap
    THEN IF pb.vcap >= pb.vmax
           THEN [pb |-> pb, i |-> -1]
           ELSE LET nc == pb.vcap * 2
                IN  [pb |-> [pb EXCEPT
                       !.pBank = [k \in 1..nc |->
                                    IF k <= pb.vcap THEN pb.pBank[k]
                                    ELSE variant_init],
                       !.vcap = nc,
                       !.vcount = @ + 1],
                     i |-> pb.vcount]
    ELSE [pb |-> [pb EXCEPT !.vcount = @ + 1], i |-> pb.vcount]

\* vblock_append: i is the new index, or -1 when the array is full.
vblock_append(pb) ==
  IF pb.vcount >= pb.vcap
    THEN IF pb.vcap >= pb.vmax
           THEN [pb |-> pb, i |-> -1]
           ELSE LET nc == IF pb.vcap * 2 > pb.vmax THEN pb.vmax
                          ELSE pb.vcap * 2
                IN  [pb |-> [pb EXCEPT
                       !.pBank = [k \in 1..nc |->
                                    IF k <= pb.vcap THEN pb.pBank[k]
                                    ELSE variant_init],
                       !.vcap = nc,
                       !.vcount = @ + 1],
                     i |-> pb.vcount]
    ELSE [pb |-> [pb EXCEPT !.vcount = @ + 1], i |-> pb.vcount]

vblock_reduce(h, pb) ==
  LET r == variant_reset(h, pb.pBank[pb.vcount])
  IN  [pb |-> [pb EXCEPT !.pBank[pb.vcount] = r.v, !.vcount = @ - 1],
       h |-> r.h]

vblock_set(h, pb, i, pv) ==
  LET r == variant_copy(h, pb.pBank[i + 1], pv)
  IN  [pb |-> [pb EXCEPT !.pBank[i + 1] = r.v], h |-> r.h, ub |-> r.ub]

\* vblock_get into a variant that variant_init has just cleared.
vblock_get(h, pb, i) == variant_copy(h, variant_init, pb.pBank[i + 1])

iblock_alloc(max_cap) ==
  LET cap == IF max_cap < IBLOCK_INITIAL THEN max_cap ELSE IBLOCK_INITIAL
  IN  [imax |-> max_cap, icount |-> 0, icap |-> cap,
       pBank |-> [k \in 1..cap |-> 0]]

iblock_append(pb) ==
  IF pb.icount >= pb.icap
    THEN IF pb.icap >= pb.imax
           THEN [pb |-> pb, i |-> -1]
           ELSE LET nc == IF pb.icap * 2 > pb.imax THEN pb.imax
                          ELSE pb.icap * 2
                IN  [pb |-> [pb EXCEPT
                       !.pBank = [k \in 1..nc |->
                                    IF k <= pb.icap THEN pb.pBank[k] ELSE 0],
                       !.icap = nc,
                       !.icount = @ + 1],
                     i |-> pb.icount]
    ELSE [pb |-> [pb EXCEPT !.icount = @ + 1], i |-> pb.icount]

iblock_reduce(pb) ==
  [pb EXCEPT !.pBank[pb.icount] = 0, !.icount = @ - 1]

iblock_set(pb, i, val) == [pb EXCEPT !.pBank[i + 1] = val]

iblock_get(pb, i) == pb.pBank[i + 1]

\* The array of operation functions before vm_register has allocated it.
NullOBlock == [omax |-> 0, ocount |-> 0, ocap |-> 0, pBank |-> <<>>]

oblock_alloc(max_cap) ==
  LET cap == IF max_cap < OBLOCK_INITIAL THEN max_cap ELSE OBLOCK_INITIAL
  IN  [omax |-> max_cap, ocount |-> 0, ocap |-> cap,
       pBank |-> [k \in 1..cap |-> NULLFP]]

\* oblock_append: i is the new index, or -1 when the array is full.
oblock_append(pb, fp) ==
  IF pb.ocount >= pb.ocap
    THEN IF pb.ocap >= pb.omax
           THEN [pb |-> pb, i |-> -1]
           ELSE LET nc == IF pb.ocap * 2 > pb.omax THEN pb.omax
                          ELSE pb.ocap * 2
                IN  [pb |-> [pb EXCEPT
                       !.pBank = [k \in 1..nc |->
                                    IF k <= pb.ocap THEN pb.pBank[k]
                                    ELSE IF k = pb.ocount + 1 THEN fp
                                    ELSE NULLFP],
                       !.ocap = nc,
                       !.ocount = @ + 1],
                     i |-> pb.ocount]
    ELSE [pb |-> [pb EXCEPT !.pBank[pb.ocount + 1] = fp, !.ocount = @ + 1],
          i |-> pb.ocount]

\* oblock_invoke: the function that is called.
oblock_invoke(pb, i) == pb.pBank[i + 1]

\* The dictionaries map a key to a value; rfdict_insert fails for a key
\* that is present and rfdict_get gives the default for a key that is not.
rfdict_alloc == <<>>

rfdict_has(d, key) == key \in DOMAIN d

rfdict_insert(d, key, val) == d @@ (key :> val)

rfdict_get(d, key, dflt) == IF key \in DOMAIN d THEN d[key] ELSE dflt

(***************************************************************************)
(* vm.c: parsing of names and literals.                                    *)
(***************************************************************************)

UpperCase == {"A", "B", "C", "D", "E", "F", "G", "H", "I", "J", "K", "L", "M",
              "N", "O", "P", "Q", "R", "S", "T", "U", "V", "W", "X", "Y", "Z"}

LowerCase == {"a", "b", "c", "d", "e", "f", "g", "h", "i", "j", "k", "l", "m",
              "n", "o", "p", "q", "r", "s", "t", "u", "v", "w", "x", "y", "z"}

DigitChars == <<"0", "1", "2", "3", "4", "5", "6", "7", "8", "9">>

Digits == {DigitChars[k] : k \in 1..10}

\* The place of a character in a sequence of characters, from 0.
CharIndex(seq, c) == (CHOOSE k \in 1..Len(seq) : seq[k] = c) - 1

\* validName: 1 to 31 characters, a letter first, then letters, digits and
\* underscores.
validName(pstr) ==
  /\ Len(pstr) >= 1 /\ Len(pstr) <= 31
  /\ pstr[1] \in UpperCase \cup LowerCase
  /\ \A k \in 2..Len(pstr) :
       pstr[k] \in UpperCase \cup LowerCase \cup Digits \cup {"_"}

\* handleString: the characters a quoted string may not hold, of which the
\* model knows the double quote, the backslash and the tabulator.
LegalChar(c) == c \notin {"\"", "\\", "\t"}

\* handleString: the value of one base-16 digit, or -1.
HexDigit(c) ==
  IF c \in Digits THEN CharIndex(DigitChars, c)
  ELSE IF c \in {"A", "B", "C", "D", "E", "F"}
    THEN CharIndex(<<"A", "B", "C", "D", "E", "F">>, c) + 10
  ELSE IF c \in {"a", "b", "c", "d", "e", "f"}
    THEN CharIndex(<<"a", "b", "c", "d", "e", "f">>, c) + 10
  ELSE -1

\* handleString: the colour of the first n digits (eight digits fill the 32
\* bits of the colour and no more).
RECURSIVE HexColor(_, _)
HexColor(pValue, n) ==
  IF n = 0 THEN 0
  ELSE HexColor(pValue, n - 1) * 16 + HexDigit(pValue[n])

\* strtod for tokens of decimal digits: the number of characters consumed
\* and their value.
RECURSIVE DigitPrefix(_)
DigitPrefix(pKey) ==
  IF pKey = <<>> \/ pKey[1] \notin Digits THEN 0
  ELSE 1 + DigitPrefix(Tail(pKey))

RECURSIVE DecimalValue(_, _)
DecimalValue(pKey, n) ==
  IF n = 0 THEN 0
  ELSE DecimalValue(pKey, n - 1) * 10 + CharIndex(DigitChars, pKey[n])

\* Bit k of a 32-bit word, and the word with bit k set.
BitIsSet(word, k) == (word \div (2 ^ k)) % 2 = 1

BitOr(word, k) == IF BitIsSet(word, k) THEN word ELSE word + 2 ^ k

(***************************************************************************)
(* vm.c: the interpreter.                                                  *)
(***************************************************************************)

\* The value that a variant stands for: its type, and its number, colour,
\* characters or node.
Value(h, pv) ==
  [vtype |-> pv.vtype,
   val |-> IF pv.vtype = VM_TYPE_STRING THEN istr_ptr(h, pv.val) ELSE pv.val]

\* The values on the interpreter stack, bottom first.
StackValues ==
  [k \in 1..m_st.vcount |-> Value(heap, m_st.pBank[k])]

\* The heights on the grouping stack, outermost group first.
GroupHeights ==
  [k \in 1..m_gs.icount |-> m_gs.pBank[k]]

\* vm_type: how many entries the innermost open group hides.
Hidden(gs) == IF Len(gs) > 0 THEN gs[Len(gs)] ELSE 0

\* A vm_type that looks at the top entry whether a group hides it or not.
TopType_any ==
  IF m_st.vcount > 0
    THEN m_st.pBank[m_st.vcount].vtype
    ELSE VM_TYPE_UNDEF

\* vm_type: the type of the top entry if it is visible, else UNDEF.
TopType ==
  IF m_st.vcount > Hidden(GroupHeights)
    THEN m_st.pBank[m_st.vcount].vtype
    ELSE VM_TYPE_UNDEF

PushFns == {"vm_push_f", "vm_push_c", "vm_push_s", "vm_push_n"}

\* What a call into the interpreter did; st and gs are the stack values and
\* the group heights before the call.
VCall(fn, arg, ok, ret) ==
  [fn |-> fn, arg |-> arg, ok |-> ok, ret |-> ret,
   st |-> StackValues, gs |-> GroupHeights, run |-> m_run]

NextPrev == IF last.fn \in PushFns /\ last.ok THEN last ELSE NoCall

\* The state of the interpreter that its functions change.
Cur ==
  [st |-> m_st, gs |-> m_gs, ns |-> m_ns, flag |-> m_ns_flag,
   dict |-> m_ns_dict, heap |-> heap, ps |-> ps, declared |-> declared,
   nodes |-> nodes, ax |-> m_ax]

VmKeep ==
  UNCHANGED <<m_called, m_run, m_ops_dict, m_ops, m_gs, m_st, m_ns_dict,
              m_ns_flag, m_ns, declared, heap, ps>>

\* raiseErrGlobal called from vm.c.
VmRaise(fn, arg) ==
  /\ err' = "error"
  /\ last' = VCall(fn, arg, FALSE, 0)
  /\ prev' = NextPrev
  /\ UNCHANGED <<cfg, pshade, ext, lilac, m_ax, calls, nodes>>
  /\ VmKeep

\* The function completes and leaves the state n.  When ub is set the
\* function has reset an ISTR that is no ISTR: where pointers are as wide as
\* int the stale pointer is NULL and the function completes; elsewhere the
\* process reads through the stale pointer and dies.
VmStep(fn, arg, ret, ub, n) ==
  \E fault \in (IF ub THEN BOOLEAN ELSE {FALSE}) :
    IF fault
      THEN /\ err' = "fault"
           /\ last' = VCall(fn, arg, FALSE, 0)
           /\ prev' = NextPrev
           /\ UNCHANGED <<cfg, pshade, ext, lilac, m_ax, nodes>>
           /\ VmKeep
      ELSE /\ m_st' = n.st /\ m_gs' = n.gs
           /\ m_ns' = n.ns /\ m_ns_flag' = n.flag /\ m_ns_dict' = n.dict
           /\ heap' = n.heap /\ ps' = n.ps /\ declared' = n.declared
           /\ nodes' = n.nodes
           /\ last' = VCall(fn, arg, TRUE, ret)
           /\ prev' = NextPrev
           /\ m_ax' = n.ax
           /\ UNCHANGED <<cfg, pshade, ext, lilac, err, m_called, m_run, m_ops_dict,
                        m_ops>>

\* The end of every push, from the state n: vblock_append, vblock_set,
\* variant_reset of the local variant pv, and istr_reset of the caller's
\* local string.
PushOn(fn, arg, n, pv, pLocal) ==
  LET a == vblock_append(n.st)
      r == vblock_set(n.heap, a.pb, a.i, pv)
      z == variant_reset(r.h, pv)
  IN  IF a.i < 0 THEN VmRaise(fn, arg)
      ELSE VmStep(fn, arg, 0, r.ub,
                  [n EXCEPT !.st = r.pb, !.heap = istr_reset(z.h, pLocal)])

PushTail(fn, arg, h, pv, pLocal) ==
  PushOn(fn, arg, [Cur EXCEPT !.heap = h], pv, pLocal)

\* The code that may call the stack functions is running: an operation
\* function, or code outside vm_run.
VmClient ==
  /\ ClientRuns
  /\ UNCHANGED renderVars
  /\ UNCHANGED calls

\* vm_run runs its loop and reads the next entity.
VmLoop ==
  /\ err = "none" /\ calls # <<>>
  /\ Top.fn = "vm_run"
  /\ UNCHANGED renderVars

\* A vm_register that does not mind a name that is registered.
vm_register_again(pOpName, fp) ==
  /\ ClientRuns
  /\ UNCHANGED renderVars
  /\ LET ops == IF m_ops = NullOBlock
                  THEN oblock_alloc(MAX_OPERATION_COUNT) ELSE m_ops
         a   == oblock_append(ops, fp)
     IN
     IF \/ m_called = 1
        \/ fp = NULLFP
        \/ ~validName(pOpName)
       THEN VmRaise("vm_register", pOpName)
     ELSE IF a.i < 0
       THEN VmRaise("vm_register", pOpName)
       ELSE /\ m_ops' = a.pb
            /\ m_ops_dict' = (pOpName :> a.i) @@ m_ops_dict
            /\ last' = VCall("vm_register", pOpName, TRUE, 0)
            /\ prev' = NextPrev
            /\ UNCHANGED <<cfg, pshade, ext, lilac, m_ax, err, calls, nodes>>
            /\ UNCHANGED <<m_called, m_run, m_gs, m_st, m_ns_dict, m_ns_flag,
                           m_ns, declared, heap, ps>>

\* A vm_register that does not look at m_called.
vm_register_late(pOpName, fp) ==
  /\ ClientRuns
  /\ UNCHANGED renderVars
  /\ LET ops == IF m_ops = NullOBlock
                  THEN oblock_alloc(MAX_OPERATION_COUNT) ELSE m_ops
         a   == oblock_append(ops, fp)
     IN
     IF fp = NULLFP \/ ~validName(pOpName)
       THEN VmRaise("vm_register", pOpName)
     ELSE IF a.i < 0 \/ rfdict_has(m_ops_dict, pOpName)
       THEN VmRaise("vm_register", pOpName)
       ELSE /\ m_ops' = a.pb
            /\ m_ops_dict' = rfdict_insert(m_ops_dict, pOpName, a.i)
            /\ last' = VCall("vm_register", pOpName, TRUE, 0)
            /\ prev' = NextPrev
            /\ UNCHANGED <<cfg, pshade, ext, lilac, m_ax, err, calls, nodes>>
            /\ UNCHANGED <<m_called, m_run, m_gs, m_st, m_ns_dict, m_ns_flag,
                           m_ns, declared, heap, ps>>

\* vm_register.
vm_register(pOpName, fp) ==
  /\ ClientRuns
  /\ UNCHANGED renderVars
  /\ LET ops == IF m_ops = NullOBlock
                  THEN oblock_alloc(MAX_OPERATION_COUNT) ELSE m_ops
         a   == oblock_append(ops, fp)
     IN
     IF \/ m_called = 1
        \/ fp = NULLFP
        \/ ~validName(pOpName)
       THEN VmRaise("vm_register", pOpName)
     ELSE IF a.i < 0 \/ rfdict_has(m_ops_dict, pOpName)
       THEN VmRaise("vm_register", pOpName)
       ELSE /\ m_ops' = a.pb
            /\ m_ops_dict' = rfdict_insert(m_ops_dict, pOpName, a.i)
            /\ last' = VCall("vm_register", pOpName, TRUE, 0)
            /\ prev' = NextPrev
            /\ UNCHANGED <<cfg, pshade, ext, lilac, m_ax, err, calls, nodes>>
            /\ UNCHANGED <<m_called, m_run, m_gs, m_st, m_ns_dict, m_ns_flag,
                           m_ns, declared, heap, ps>>

\* vm_run, up to its loop: the checks and the allocation of the stacks and
\* of the namespace.
vm_run(pp) ==
  /\ ClientRuns
  /\ UNCHANGED renderVars
  /\ LET fcount == (cfg.names \div 32)
                     + (IF cfg.names % 32 > 0 THEN 1 ELSE 0)
     IN  IF m_called = 1
           THEN VmRaise("vm_run", pp)
           ELSE /\ m_called' = 1
                /\ prev' = NextPrev
                /\ UNCHANGED <<cfg, pshade, ext, lilac, m_ax, nodes, m_ops_dict, m_ops,
                               declared, heap, ps>>
                /\ IF pp = NULL \/ cfg.stack < 1 \/ fcount < 1 \/ cfg.names < 1
                     THEN /\ err' = "error"
                          /\ last' = VCall("vm_run", pp, FALSE, 0)
                          /\ UNCHANGED <<calls, m_run, m_gs, m_st, m_ns_dict,
                                         m_ns_flag, m_ns>>
                     ELSE /\ m_gs' = iblock_alloc(MAX_GROUP_DEPTH)
                          /\ m_st' = vblock_alloc(cfg.stack)
                          /\ m_ns_dict' = rfdict_alloc
                          /\ m_ns_flag' = iblock_alloc(fcount)
                          /\ m_ns' = vblock_alloc(cfg.names)
                          /\ m_run' = 1
                          /\ calls' = Push([fn |-> "vm_run"])
                          /\ UNCHANGED <<err, last>>

\* readEntity reports a parsing error of the Shastina parser.
readEntity ==
  /\ VmLoop
  /\ VmRaise("readEntity", 0)

\* handleString for a quoted or a curly string entity.
handleString(str_type, pKey, pValue) ==
  /\ VmLoop
  /\ UNCHANGED calls
  /\ IF Len(pKey) > 0 THEN VmRaise("handleString", pValue)
     ELSE IF str_type = "SNSTRING_QUOTED"
       THEN IF \E k \in 1..Len(pValue) : ~LegalChar(pValue[k])
              THEN VmRaise("handleString", pValue)
              ELSE /\ Len(pValue) > 0 => FreeSlots(heap) # {}
                   /\ LET str == istr_new(heap, NULL, pValue)
                          v   == variant_setString(str.h, str.pRef)
                      IN  IF ~str.ok THEN VmRaise("handleString", pValue)
                          ELSE PushTail("handleString", pValue, v.h, v.v,
                                        str.pRef)
       ELSE IF \/ Len(pValue) # 8
               \/ \E k \in 1..Len(pValue) : HexDigit(pValue[k]) < 0
              THEN VmRaise("handleString", pValue)
              ELSE PushTail("handleString", pValue, heap,
                            variant_setColor(HexColor(pValue, 8)), NULL)

\* handleNumeric.
handleNumeric(pKey) ==
  /\ VmLoop
  /\ UNCHANGED calls
  /\ IF DigitPrefix(pKey) # Len(pKey)
       THEN VmRaise("handleNumeric", pKey)
       ELSE PushTail("handleNumeric", pKey, heap,
                     variant_setFloat(DecimalValue(pKey, Len(pKey))), NULL)

\* The end of handleDeclare and of handleAssign: copy the top of the stack
\* into a local variant, vm_pop, vblock_set into the namespace, reset.
StoreTail(fn, pKey, i, n) ==
  LET g == vblock_get(heap, m_st, m_st.vcount - 1)
      d == vblock_reduce(g.h, m_st)
      r == vblock_set(d.h, n.ns, i, g.v)
      z == variant_reset(r.h, g.v)
  IN  VmStep(fn, pKey, i, r.ub,
             [n EXCEPT !.st = d.pb, !.ns = r.pb, !.heap = z.h])

\* A handleDeclare that maps a name that is already declared to the new
\* index.
handleDeclare_replace(status, pKey) ==
  /\ VmLoop
  /\ UNCHANGED calls
  /\ LET a    == vblock_append(m_ns)
         j    == iblock_append(m_ns_flag)
         f1   == IF a.i % 32 = 0 THEN iblock_set(j.pb, j.i, 0) ELSE m_ns_flag
         offs == a.i \div 32
         f2   == IF status = "SNENTITY_CONSTANT"
                   THEN iblock_set(f1, offs,
                                   BitOr(iblock_get(f1, offs), a.i % 32))
                   ELSE f1
     IN  IF ~validName(pKey) \/ TopType = VM_TYPE_UNDEF \/ a.i < 0
           THEN VmRaise("handleDeclare", pKey)
         ELSE IF a.i % 32 = 0 /\ j.i < 0
           THEN VmRaise("handleDeclare", pKey)
         ELSE StoreTail("handleDeclare", pKey, a.i,
                [Cur EXCEPT
                   !.ns = a.pb,
                   !.flag = f2,
                   !.dict = (pKey :> a.i) @@ m_ns_dict,
                   !.declared =
                      IF status = "SNENTITY_CONSTANT"
                        THEN (pKey :> Value(heap, m_st.pBank[m_st.vcount]))
                               @@ @
                        ELSE @])

\* handleDeclare for a variable or a constant entity.
handleDeclare(status, pKey) ==
  /\ VmLoop
  /\ UNCHANGED calls
  /\ LET a    == vblock_append(m_ns)
         j    == iblock_append(m_ns_flag)
         f1   == IF a.i % 32 = 0 THEN iblock_set(j.pb, j.i, 0) ELSE m_ns_flag
         offs == a.i \div 32
         f2   == IF status = "SNENTITY_CONSTANT"
                   THEN iblock_set(f1, offs,
                                   BitOr(iblock_get(f1, offs), a.i % 32))
                   ELSE f1
     IN  IF ~validName(pKey) \/ TopType = VM_TYPE_UNDEF \/ a.i < 0
           THEN VmRaise("handleDeclare", pKey)
         ELSE IF a.i % 32 = 0 /\ j.i < 0
           THEN VmRaise("handleDeclare", pKey)
         ELSE IF rfdict_has(m_ns_dict, pKey)
           THEN VmRaise("handleDeclare", pKey)
         ELSE StoreTail("handleDeclare", pKey, a.i,
                [Cur EXCEPT
                   !.ns = a.pb,
                   !.flag = f2,
                   !.dict = rfdict_insert(m_ns_dict, pKey, a.i),
                   !.declared =
                      IF status = "SNENTITY_CONSTANT"
                        THEN @ @@ (pKey :>
                               Value(heap, m_st.pBank[m_st.vcount]))
                        ELSE @])

\* A handleAssign that does not look at the constant flag.
handleAssign_any(pKey) ==
  /\ VmLoop
  /\ UNCHANGED calls
  /\ LET i == rfdict_get(m_ns_dict, pKey, -1)
     IN  IF ~validName(pKey) \/ TopType = VM_TYPE_UNDEF \/ i < 0
           THEN VmRaise("handleAssign", pKey)
         ELSE StoreTail("handleAssign", pKey, i, Cur)

\* handleAssign.
handleAssign(pKey) ==
  /\ VmLoop
  /\ UNCHANGED calls
  /\ LET i == rfdict_get(m_ns_dict, pKey, -1)
     IN  IF ~validName(pKey) \/ TopType = VM_TYPE_UNDEF \/ i < 0
           THEN VmRaise("handleAssign", pKey)
         ELSE IF BitIsSet(iblock_get(m_ns_flag, i \div 32), i % 32)
           THEN VmRaise("handleAssign", pKey)
         ELSE StoreTail("handleAssign", pKey, i, Cur)

\* A handleGet that reads the first entry of the namespace for a name that
\* is not declared.
handleGet_first(pKey) ==
  /\ VmLoop
  /\ UNCHANGED calls
  /\ LET i == rfdict_get(m_ns_dict, pKey, 0)
         g == vblock_get(heap, m_ns, i)
     IN  IF ~validName(pKey)
           THEN VmRaise("handleGet", pKey)
           ELSE PushTail("handleGet", pKey, g.h, g.v, NULL)

\* handleGet.
handleGet(pKey) ==
  /\ VmLoop
  /\ UNCHANGED calls
  /\ LET i == rfdict_get(m_ns_dict, pKey, -1)
         g == vblock_get(heap, m_ns, i)
     IN  IF ~validName(pKey) \/ i < 0
           THEN VmRaise("handleGet", pKey)
           ELSE PushTail("handleGet", pKey, g.h, g.v, NULL)

\* handlBeginGroup.
\* A handlBeginGroup that saves the visible height instead of the total
\* height of the stack.
handlBeginGroup_visible ==
  /\ VmLoop
  /\ UNCHANGED calls
  /\ LET a == iblock_append(m_gs)
     IN  IF a.i < 0 THEN VmRaise("handlBeginGroup", 0)
         ELSE VmStep("handlBeginGroup", 0, 0, FALSE,
                     [Cur EXCEPT !.gs = iblock_set(a.pb, a.i,
                                   m_st.vcount - Hidden(GroupHeights))])

handlBeginGroup ==
  /\ VmLoop
  /\ UNCHANGED calls
  /\ LET a == iblock_append(m_gs)
     IN  IF a.i < 0 THEN VmRaise("handlBeginGroup", 0)
         ELSE VmStep("handlBeginGroup", 0, 0, FALSE,
                     [Cur EXCEPT !.gs = iblock_set(a.pb, a.i, m_st.vcount)])

\* A handleEndGroup that wants the height that the group began with.
handleEndGroup_same ==
  /\ VmLoop
  /\ UNCHANGED calls
  /\ IF m_gs.icount - 1 < 0 THEN VmRaise("handleEndGroup", 0)
     ELSE LET s == iblock_get(m_gs, m_gs.icount - 1)
          IN  IF m_st.vcount # s THEN VmRaise("handleEndGroup", 0)
              ELSE VmStep("handleEndGroup", 0, 0, FALSE,
                          [Cur EXCEPT !.gs = iblock_reduce(m_gs)])

\* handleEndGroup.
handleEndGroup ==
  /\ VmLoop
  /\ UNCHANGED calls
  /\ IF m_gs.icount - 1 < 0 THEN VmRaise("handleEndGroup", 0)
     ELSE LET s == iblock_get(m_gs, m_gs.icount - 1)
          IN  IF m_st.vcount - 1 # s THEN VmRaise("handleEndGroup", 0)
              ELSE VmStep("handleEndGroup", 0, 0, FALSE,
                          [Cur EXCEPT !.gs = iblock_reduce(m_gs)])

\* handleArray.
handleArray(count) ==
  /\ VmLoop
  /\ UNCHANGED calls
  /\ PushTail("handleArray", count, heap, variant_setFloat(count), NULL)

\* handleOperation: look the name up and call the operation function.
handleOperation(pKey) ==
  /\ VmLoop
  /\ LET i == rfdict_get(m_ops_dict, pKey, -1)
     IN  IF ~validName(pKey) \/ i < 0
           THEN VmRaise("handleOperation", pKey) /\ UNCHANGED calls
           ELSE /\ calls' = Push([fn |-> "op", fp |-> oblock_invoke(m_ops, i)])
                /\ UNCHANGED <<cfg, pshade, ext, lilac, m_ax, err, last, nodes>>
                /\ UNCHANGED vmVars

\* An operation function of a collaborator returns.
op_return ==
  /\ err = "none" /\ calls # <<>>
  /\ Top.fn = "op" /\ Top.fp = "op_client"
  /\ calls' = Pop
  /\ UNCHANGED <<cfg, pshade, ext, lilac, m_ax, err, last, nodes>>
  /\ UNCHANGED renderVars
  /\ UNCHANGED vmVars

\* A vm_run that does not count the entries of the stack at the end.
vm_run_return_any(consumed) ==
  /\ VmLoop
  /\ IF ~consumed \/ TopType # VM_TYPE_NODE
       THEN VmRaise("vm_run", 1)
       ELSE LET g == vblock_get(heap, m_st, m_st.vcount - 1)
                d == vblock_reduce(g.h, m_st)
                z == variant_reset(d.h, g.v)
            IN  /\ m_st' = d.pb
                /\ heap' = z.h
                /\ m_run' = 0
                /\ calls' = Pop
                /\ last' = VCall("vm_run", 1, TRUE, g.v.val)
                /\ prev' = NextPrev
                /\ UNCHANGED <<cfg, pshade, ext, lilac, m_ax, err, nodes>>
                /\ UNCHANGED <<m_called, m_ops_dict, m_ops, m_gs, m_ns_dict,
                               m_ns_flag, m_ns, declared, ps>>

\* vm_run, after its loop: the end of input.
vm_run_return(consumed) ==
  /\ VmLoop
  /\ IF ~consumed \/ m_st.vcount # 1 \/ TopType # VM_TYPE_NODE
       THEN VmRaise("vm_run", 1)
       ELSE LET g == vblock_get(heap, m_st, m_st.vcount - 1)
                d == vblock_reduce(g.h, m_st)
                z == variant_reset(d.h, g.v)
            IN  /\ m_st' = d.pb
                /\ heap' = z.h
                /\ m_run' = 0
                /\ calls' = Pop
                /\ last' = VCall("vm_run", 1, TRUE, g.v.val)
                /\ prev' = NextPrev
                /\ UNCHANGED <<cfg, pshade, ext, lilac, m_ax, err, nodes>>
                /\ UNCHANGED <<m_called, m_ops_dict, m_ops, m_gs, m_ns_dict,
                               m_ns_flag, m_ns, declared, ps>>

(***************************************************************************)
(* vm.c: the stack functions for operation functions.                      *)
(***************************************************************************)

\* A vm_type that does not look at m_run.
vm_type_idle ==
  /\ VmClient
  /\ VmStep("vm_type", 0, TopType, FALSE, Cur)

\* vm_type.
vm_type ==
  /\ VmClient
  /\ IF m_run = 0 THEN VmRaise("vm_type", 0)
     ELSE VmStep("vm_type", 0, TopType, FALSE, Cur)

\* vm_pop_f, vm_pop_c and vm_pop_n: vm_type, vblock_get into a local variant,
\* vblock_reduce, read the local variant and reset it.
PopTyped(fn, vtype) ==
  /\ VmClient
  /\ IF m_run = 0 THEN VmRaise(fn, 0)
     ELSE IF TopType # vtype THEN VmRaise(fn, 0)
     ELSE LET g == vblock_get(heap, m_st, m_st.vcount - 1)
              d == vblock_reduce(g.h, m_st)
              z == variant_reset(d.h, g.v)
          IN  VmStep(fn, 0, g.v.val, FALSE,
                     [Cur EXCEPT !.st = d.pb, !.heap = z.h])

vm_pop_f == PopTyped("vm_pop_f", VM_TYPE_FLOAT)

vm_pop_c == PopTyped("vm_pop_c", VM_TYPE_COLOR)

vm_pop_n == PopTyped("vm_pop_n", VM_TYPE_NODE)

\* vm_pop_s: as the others, and the string is copied into the caller's ISTR.
vm_pop_s ==
  /\ VmClient
  /\ IF m_run = 0 THEN VmRaise("vm_pop_s", 0)
     ELSE IF TopType # VM_TYPE_STRING THEN VmRaise("vm_pop_s", 0)
     ELSE LET g == vblock_get(heap, m_st, m_st.vcount - 1)
              d == vblock_reduce(g.h, m_st)
              c == istr_copy(d.h, ps, g.v.val)
              z == variant_reset(c.h, g.v)
          IN  VmStep("vm_pop_s", 0, istr_ptr(z.h, c.pRef), FALSE,
                     [Cur EXCEPT !.st = d.pb, !.heap = z.h, !.ps = c.pRef])

\* vm_push_f.
vm_push_f(f) ==
  /\ VmClient
  /\ IF m_run = 0 THEN VmRaise("vm_push_f", f)
     ELSE PushTail("vm_push_f", f, heap, variant_setFloat(f), NULL)

\* vm_push_c.
vm_push_c(col) ==
  /\ VmClient
  /\ IF m_run = 0 THEN VmRaise("vm_push_c", col)
     ELSE PushTail("vm_push_c", col, heap, variant_setColor(col), NULL)

\* vm_push_s of the caller's ISTR.
vm_push_s ==
  /\ VmClient
  /\ IF m_run = 0 THEN VmRaise("vm_push_s", istr_ptr(heap, ps))
     ELSE LET v == variant_setString(heap, ps)
          IN  PushTail("vm_push_s", istr_ptr(heap, ps), v.h, v.v, NULL)

\* vm_push_n.
vm_push_n(pn) ==
  /\ VmClient
  /\ IF m_run = 0 \/ pn = NULL THEN VmRaise("vm_push_n", pn)
     ELSE PushTail("vm_push_n", pn, heap, variant_setNode(pn), NULL)

\* vm_dup.
vm_dup ==
  /\ VmClient
  /\ IF m_run = 0 THEN VmRaise("vm_dup", 0)
     ELSE IF TopType = VM_TYPE_UNDEF THEN VmRaise("vm_dup", 0)
     ELSE LET g == vblock_get(heap, m_st, m_st.vcount - 1)
          IN  PushTail("vm_dup", 0, g.h, g.v, NULL)

\* vm_pop.
vm_pop ==
  /\ VmClient
  /\ IF m_run = 0 THEN VmRaise("vm_pop", 0)
     ELSE IF TopType = VM_TYPE_UNDEF THEN VmRaise("vm_pop", 0)
     ELSE LET d == vblock_reduce(heap, m_st)
          IN  VmStep("vm_pop", 0, 0, FALSE,
                     [Cur EXCEPT !.st = d.pb, !.heap = d.h])

\* A caller of vm_push_s makes a string in its ISTR with istr_new.
istr_new_ps(pstr) ==
  /\ VmClient
  /\ Len(pstr) > 0 => FreeSlots(istr_reset(heap, ps)) # {}
  /\ LET n == istr_new(heap, ps, pstr)
     IN  /\ n.ok
         /\ heap' = n.h
         /\ ps' = n.pRef
  /\ UNCHANGED <<cfg, pshade, ext, lilac, m_ax, err, last, nodes>>
  /\ UNCHANGED <<m_called, m_run, m_ops_dict, m_ops, m_gs, m_st, m_ns_dict,
                 m_ns_flag, m_ns, prev, declared>>

(***************************************************************************)
(* node_select.c                                                           *)
(***************************************************************************)

\* A record of a palette that calloc or memset has cleared.
NullRec == [key |-> 0, val |-> NULL]

\* pal_init.
pal_init ==
  [pData |-> [k \in 1..INIT_RECORDS |-> NullRec],
   cap |-> INIT_RECORDS, count |-> 0]

\* pal_add: ok is FALSE when the palette holds MAX_RECORDS records.
pal_add(pp, key, val) ==
  LET nc   == IF pp.cap * 2 > MAX_RECORDS THEN MAX_RECORDS ELSE pp.cap * 2
      full == pp.count >= pp.cap
      g    == IF full
                THEN [pp EXCEPT
                        !.pData = [k \in 1..nc |->
                                     IF k <= pp.cap THEN pp.pData[k]
                                     ELSE NullRec],
                        !.cap = nc]
                ELSE pp
  IN  IF val = NULL \/ (full /\ pp.cap >= MAX_RECORDS)
        THEN [ok |-> FALSE, pp |-> pp]
        ELSE [ok |-> TRUE,
              pp |-> [g EXCEPT
                        !.pData[pp.count + 1] = [key |-> key, val |-> val],
                        !.count = @ + 1]]

\* qsort with cmp_pal_rec: the records in ascending order of their keys.
RECURSIVE SortRecs(_)
SortRecs(recs) ==
  IF Len(recs) <= 1 THEN recs
  ELSE LET lo == CHOOSE i \in 1..Len(recs) :
                   \A j \in 1..Len(recs) :
                     /\ recs[i].key <= recs[j].key
                     /\ recs[i].key = recs[j].key => i <= j
           rest == [k \in 1..(Len(recs) - 1) |->
                      IF k < lo THEN recs[k] ELSE recs[k + 1]]
       IN  <<recs[lo]>> \o SortRecs(rest)

\* A pal_sort that sorts and does not compare the keys of neighbours.
pal_sort_unchecked(pp) ==
  IF pp.count < 1
    THEN [ok |-> TRUE,
          pp |-> IF pp.cap > 1
                   THEN [pp EXCEPT !.pData = SubSeq(pp.pData, 1, 1),
                                   !.cap = 1]
                   ELSE pp]
    ELSE [ok |-> TRUE,
          pp |-> [pp EXCEPT !.pData = SortRecs(SubSeq(pp.pData, 1, pp.count)),
                            !.cap = pp.count]]

\* pal_sort: the array is cut to the records in use (to one record for an
\* empty palette) and sorted; ok is FALSE when two records that are
\* neighbours after the sort have the same key.
pal_sort(pp) ==
  IF pp.count < 1
    THEN [ok |-> TRUE,
          pp |-> IF pp.cap > 1
                   THEN [pp EXCEPT !.pData = SubSeq(pp.pData, 1, 1),
                                   !.cap = 1]
                   ELSE pp]
    ELSE LET sorted == SortRecs(SubSeq(pp.pData, 1, pp.count))
         IN  [ok |-> \A i \in 2..pp.count :
                       sorted[i].key # sorted[i - 1].key,
              pp |-> [pp EXCEPT !.pData = sorted, !.cap = pp.count]]

\* bsearch with cmp_pal_key between the records lo and hi: the index of a
\* record with the key, or 0.
RECURSIVE BSearch(_, _, _, _)
BSearch(recs, key, lo, hi) ==
  IF lo > hi THEN 0
  ELSE LET mid == (lo + hi) \div 2
       IN  IF key > recs[mid].key THEN BSearch(recs, key, mid + 1, hi)
           ELSE IF key < recs[mid].key THEN BSearch(recs, key, lo, mid - 1)
           ELSE mid

\* A pal_query that answers with the first record whatever the key is.
pal_query_first(pp, key) ==
  IF pp.count > 0 THEN pp.pData[1].val ELSE NULL

\* pal_query: the node that the key maps to, or NULL.
pal_query(pp, key) ==
  LET pr == BSearch(pp.pData, key, 1, pp.count)
  IN  IF pr # 0 THEN pp.pData[pr].val ELSE NULL

\* pal_depth: what the loop can leave in result, which starts at zero and
\* takes every greater value that node_depth returns.
pal_depth(pp) ==
  IF pp.count = 0 THEN {0}
  ELSE {IF d > 0 THEN d ELSE 0 : d \in DepthReturns}

\* vm_type for the stack st.
TypeAt(st) ==
  IF st.vcount > Hidden(GroupHeights)
    THEN st.pBank[st.vcount].vtype
    ELSE VM_TYPE_UNDEF

\* An operation function of node_select.c runs.
SelectOp(fp) ==
  /\ err = "none" /\ calls # <<>>
  /\ Top.fn = "op" /\ Top.fp = fp
  /\ UNCHANGED renderVars

\* An op_select_new that replaces a definition in the accumulator.
op_select_new_replace ==
  /\ SelectOp("op_select_new")
  /\ LET g1 == vblock_get(heap, m_st, m_st.vcount - 1)
         d1 == vblock_reduce(g1.h, m_st)
         z1 == variant_reset(d1.h, g1.v)
         g2 == vblock_get(z1.h, d1.pb, d1.pb.vcount - 1)
         d2 == vblock_reduce(g2.h, d1.pb)
         z2 == variant_reset(d2.h, g2.v)
     IN  IF \/ m_run = 0
            \/ TopType # VM_TYPE_NODE
            \/ TypeAt(d1.pb) # VM_TYPE_NODE
           THEN VmRaise("op_select_new", 0)
           ELSE VmStep("op_select_new", 0, 0, FALSE,
                       [Cur EXCEPT
                          !.st = d2.pb, !.heap = z2.h,
                          !.ax = [nIndex |-> g2.v.val,
                                  nDefault |-> g1.v.val,
                                  pal |-> pal_init]])
  /\ calls' = IF err' = "none" THEN Pop ELSE calls

\* op_select_new: pop the default node and the index node, and put a
\* definition with an empty palette into the accumulator.
op_select_new ==
  /\ SelectOp("op_select_new")
  /\ LET g1 == vblock_get(heap, m_st, m_st.vcount - 1)
         d1 == vblock_reduce(g1.h, m_st)
         z1 == variant_reset(d1.h, g1.v)
         g2 == vblock_get(z1.h, d1.pb, d1.pb.vcount - 1)
         d2 == vblock_reduce(g2.h, d1.pb)
         z2 == variant_reset(d2.h, g2.v)
     IN  IF \/ m_run = 0
            \/ TopType # VM_TYPE_NODE
            \/ TypeAt(d1.pb) # VM_TYPE_NODE
            \/ m_ax # NullSelect
           THEN VmRaise("op_select_new", 0)
           ELSE VmStep("op_select_new", 0, 0, FALSE,
                       [Cur EXCEPT
                          !.st = d2.pb, !.heap = z2.h,
                          !.ax = [nIndex |-> g2.v.val,
                                  nDefault |-> g1.v.val,
                                  pal |-> pal_init]])
  /\ calls' = IF err' = "none" THEN Pop ELSE calls

\* op_select_map: pop the node and the key, and add the record to the
\* palette in the accumulator.
op_select_map ==
  /\ SelectOp("op_select_map")
  /\ LET g1 == vblock_get(heap, m_st, m_st.vcount - 1)
         d1 == vblock_reduce(g1.h, m_st)
         z1 == variant_reset(d1.h, g1.v)
         g2 == vblock_get(z1.h, d1.pb, d1.pb.vcount - 1)
         d2 == vblock_reduce(g2.h, d1.pb)
         z2 == variant_reset(d2.h, g2.v)
         a  == pal_add(m_ax.pal, g2.v.val, g1.v.val)
     IN  IF \/ m_run = 0
            \/ TopType # VM_TYPE_NODE
            \/ TypeAt(d1.pb) # VM_TYPE_COLOR
            \/ m_ax = NullSelect
           THEN VmRaise("op_select_map", 0)
         ELSE IF ~a.ok
           THEN VmRaise("op_select_map", 0)
           ELSE VmStep("op_select_map", 0, 0, FALSE,
                       [Cur EXCEPT
                          !.st = d2.pb, !.heap = z2.h,
                          !.ax = [m_ax EXCEPT !.pal = a.pp]])
  /\ calls' = IF err' = "none" THEN Pop ELSE calls

\* op_select_finish: pal_sort, the depth from node_depth of the index node,
\* of the default node and from pal_depth, node_define, the accumulator is
\* cleared, vm_push_n.  An increment of INT32_MAX leaves the least int.
op_select_finish ==
  /\ SelectOp("op_select_finish")
  /\ \E dIndex \in DepthReturns, dDefault \in DepthReturns,
        dPal \in pal_depth(m_ax.pal) :
       LET sorted == pal_sort(m_ax.pal)
           m1     == IF dIndex > 0 THEN dIndex ELSE 0
           m2     == IF dDefault > m1 THEN dDefault ELSE m1
           m3     == IF dPal > m2 THEN dPal ELSE m2
           depth  == IF m3 = 2147483647 THEN (-2147483647) - 1 ELSE m3 + 1
           pn     == Len(nodes) + 1
           pd     == [m_ax EXCEPT !.pal = sorted.pp]
       IN  IF m_ax = NullSelect
             THEN VmRaise("op_select_finish", 0)
           ELSE IF ~sorted.ok
             THEN VmRaise("op_select_finish", 0)
           ELSE IF depth < 1 \/ depth > cfg.depth
             THEN VmRaise("op_select_finish", depth)
           ELSE PushOn("op_select_finish", pn,
                       [Cur EXCEPT
                          !.nodes = Append(@, [pInstance |-> pd,
                                               fp |-> "node_select",
                                               depth |-> depth]),
                          !.ax = NullSelect],
                       variant_setNode(pn), NULL)
  /\ calls' = IF err' = "none" THEN Pop ELSE calls

\* A node function of node_select.c runs.
SelectNode(pc) ==
  /\ err = "none" /\ calls # <<>>
  /\ Top.fn = "node"
  /\ nodes[Top.pNode].fp = "node_select"
  /\ Top.pc = pc
  /\ UNCHANGED vmVars
  /\ UNCHANGED <<m_render, m_offs, m_x, m_y, m_w, m_h, m_pl,
                 goStarted, goReturned, raster>>

\* node_select: col = node_invoke(pd->nIndex).
node_select_index ==
  /\ SelectNode("start")
  /\ LET pd == nodes[Top.pNode].pInstance
     IN  NodeInvokeOn([calls EXCEPT
                         ![Len(calls)].pc = "index",
                         ![Len(calls)].kids = Append(@, pd.nIndex)],
                      pd.nIndex, FALSE)

\* node_select, when the index node has returned col: pal_query, the
\* default node for NULL, and node_invoke(pn).
node_select_value ==
  /\ SelectNode("index")
  /\ LET pd  == nodes[Top.pNode].pInstance
         col == last.ret
         pq  == pal_query(pd.pal, col)
         pn  == IF pq = NULL THEN pd.nDefault ELSE pq
     IN  NodeInvokeOn([calls EXCEPT
                         ![Len(calls)].pc = "value",
                         ![Len(calls)].icol = col,
                         ![Len(calls)].kids = Append(@, pn)],
                      pn, FALSE)

(***************************************************************************)
(* lilac.c of the tile renderer (src/lilac.c).  The variable lilac holds   *)
(* its static variables; m_fh is the temporary file, as the set of the     *)
(* rectangles <<x, y, w, h>> of pixels that were written to it, or NULL.   *)
(* The file operations and the allocations are taken to succeed.  begun    *)
(* and ended count the calls of lilac_begin_tile and lilac_end_tile that   *)
(* have returned; paths counts the calls of lilac_begin_path that have     *)
(* returned less those of lilac_end_path, locks those of lilac_lock less   *)
(* those of lilac_unlock; inits and compiles count the calls of lilac_init *)
(* and lilac_compile that have returned.                                   *)
(***************************************************************************)

STATE_CLOSED == -1

STATE_READY == 0

STATE_INIT == 1

STATE_TILE == 2

STATE_PATH == 3

STATE_LOCK == 4

LILAC_MAX_IMAGE == 16384

LILAC_MIN_TILE == 64

LILAC_MAX_TILE == 4096

\* The static variables as the program starts.
LilacReady ==
  [m_state |-> STATE_READY, m_fh |-> NULL, m_w |-> 0, m_h |-> 0,
   m_dim |-> 0, m_rows |-> 0, m_cols |-> 0, m_tile_count |-> 0,
   m_finished |-> 0, m_pos |-> -1,
   m_tx |-> 0, m_ty |-> 0, m_tw |-> 0, m_th |-> 0,
   begun |-> 0, ended |-> 0, paths |-> 0, locks |-> 0,
   inits |-> 0, compiles |-> 0]

\* A client of the tile renderer is running.  It uses nothing of the
\* interpreter.
TileClient ==
  /\ err = "none"
  /\ UNCHANGED <<cfg, pshade, ext, calls, nodes, m_ax>>
  /\ UNCHANGED renderVars
  /\ UNCHANGED vmVars

\* raiseErr with the default handler: report and exit(EXIT_FAILURE).
TileRaise(fn, arg) ==
  /\ err' = "error"
  /\ last' = Call(fn, arg, FALSE, 0)
  /\ UNCHANGED lilac

\* A function of the module returns.
TileReturn(fn, arg, ret, new) ==
  /\ lilac' = new
  /\ last' = Call(fn, arg, TRUE, ret)
  /\ UNCHANGED err

\* lilac_init with the default handlers.
lilac_init(w, h, tile) ==
  /\ TileClient
  /\ IF \/ lilac.m_state # STATE_READY
        \/ w < 1 \/ w > LILAC_MAX_IMAGE
        \/ h < 1 \/ h > LILAC_MAX_IMAGE
        \/ tile < LILAC_MIN_TILE \/ tile > LILAC_MAX_TILE
       THEN TileRaise("lilac_init", <<w, h, tile>>)
       ELSE LET max_dim == IF h > w THEN h ELSE w
                dim     == IF max_dim < tile
                             THEN IF max_dim < LILAC_MIN_TILE
                                    THEN LILAC_MIN_TILE ELSE max_dim
                             ELSE tile
                cols    == (w \div dim) + (IF (w % dim) > 0 THEN 1 ELSE 0)
                rows    == (h \div dim) + (IF (h % dim) > 0 THEN 1 ELSE 0)
            IN  TileReturn("lilac_init", <<w, h, tile>>, 0,
                           [lilac EXCEPT
                              !.m_w = w, !.m_h = h, !.m_dim = dim,
                              !.m_cols = cols, !.m_rows = rows,
                              !.m_tile_count = cols * rows,
                              !.m_pos = -1, !.m_finished = 0,
                              !.m_fh = {},
                              !.m_state = STATE_INIT,
                              !.inits = @ + 1])

\* lilac_width, lilac_height, lilac_tiles
TileQuery(fn, v) ==
  /\ TileClient
  /\ IF lilac.m_state < STATE_INIT
       THEN TileRaise(fn, 0)
       ELSE TileReturn(fn, 0, v, lilac)

lilac_width == TileQuery("lilac_width", lilac.m_w)

lilac_height == TileQuery("lilac_height", lilac.m_h)

lilac_tiles == TileQuery("lilac_tiles", lilac.m_tile_count)

\* lilac_color; the fill colour is not part of the model.
lilac_color == TileQuery("lilac_color", 0)

\* lilac_begin_tile: the next tile is loaded and cleared.
\* A lilac_begin_tile that gives every tile the full tile dimension.
lilac_begin_tile_unclipped ==
  /\ TileClient
  /\ IF \/ lilac.m_state # STATE_INIT
        \/ lilac.m_finished >= lilac.m_tile_count
       THEN TileRaise("lilac_begin_tile", 0)
       ELSE LET pos == lilac.m_finished
                ty  == (pos \div lilac.m_cols) * lilac.m_dim
                tx  == (pos % lilac.m_cols) * lilac.m_dim
            IN  TileReturn("lilac_begin_tile", 0, 0,
                           [lilac EXCEPT
                              !.m_pos = pos, !.m_tx = tx, !.m_ty = ty,
                              !.m_tw = lilac.m_dim, !.m_th = lilac.m_dim,
                              !.m_state = STATE_TILE,
                              !.begun = @ + 1])

lilac_begin_tile ==
  /\ TileClient
  /\ IF \/ lilac.m_state # STATE_INIT
        \/ lilac.m_finished >= lilac.m_tile_count
       THEN TileRaise("lilac_begin_tile", 0)
       ELSE LET pos == lilac.m_finished
                ty  == (pos \div lilac.m_cols) * lilac.m_dim
                tx  == (pos % lilac.m_cols) * lilac.m_dim
                tw  == IF lilac.m_w - tx > lilac.m_dim
                         THEN lilac.m_dim ELSE lilac.m_w - tx
                th  == IF lilac.m_h - ty > lilac.m_dim
                         THEN lilac.m_dim ELSE lilac.m_h - ty
            IN  TileReturn("lilac_begin_tile", 0, 0,
                           [lilac EXCEPT
                              !.m_pos = pos, !.m_tx = tx, !.m_ty = ty,
                              !.m_tw = tw, !.m_th = th,
                              !.m_state = STATE_TILE,
                              !.begun = @ + 1])

\* lilac_end_tile: the m_th scanlines of m_tw pixels of the tile are
\* written to the temporary file at (m_tx, m_ty).
lilac_end_tile ==
  /\ TileClient
  /\ IF lilac.m_state # STATE_TILE
       THEN TileRaise("lilac_end_tile", 0)
       ELSE TileReturn("lilac_end_tile", 0, 0,
                       [lilac EXCEPT
                          !.m_fh = @ \cup {<<lilac.m_tx, lilac.m_ty,
                                              lilac.m_tw, lilac.m_th>>},
                          !.m_finished = @ + 1,
                          !.m_pos = -1,
                          !.m_state = STATE_INIT,
                          !.ended = @ + 1])

\* A function that needs the state from and arguments that are in order,
\* and leaves the static variables new.
TileMove(fn, arg, argOk, from, ret, new) ==
  /\ TileClient
  /\ IF lilac.m_state # from \/ ~argOk
       THEN TileRaise(fn, arg)
       ELSE TileReturn(fn, arg, ret, new)

\* A lilac_begin_path that also starts a path while the tile is locked.
lilac_begin_path_locked ==
  /\ TileClient
  /\ IF lilac.m_state \notin {STATE_TILE, STATE_LOCK}
       THEN TileRaise("lilac_begin_path", 0)
       ELSE TileReturn("lilac_begin_path", 0, 0,
                       [lilac EXCEPT !.m_state = STATE_PATH, !.paths = @ + 1])

lilac_begin_path ==
  TileMove("lilac_begin_path", 0, TRUE, STATE_TILE, 0,
           [lilac EXCEPT !.m_state = STATE_PATH, !.paths = @ + 1])

\* lilac_end_path fills the path into the tile buffer; the pixels are not
\* part of the model.
lilac_end_path ==
  TileMove("lilac_end_path", 0, TRUE, STATE_PATH, 0,
           [lilac EXCEPT !.m_state = STATE_TILE, !.paths = @ - 1])

\* lilac_line and lilac_dot add intersections to the path; the geometry is
\* not part of the model.  finite tells that the coordinates are finite
\* numbers, valid that they are and that the radius is greater than zero.
lilac_line(finite) ==
  TileMove("lilac_line", finite, finite, STATE_PATH, 0, lilac)

lilac_dot(valid) ==
  TileMove("lilac_dot", valid, valid, STATE_PATH, 0, lilac)

\* lilac_lock returns the rectangle of the tile and the pitch.
lilac_lock(pLock) ==
  TileMove("lilac_lock", pLock, pLock # NULL, STATE_TILE,
           [x |-> lilac.m_tx, y |-> lilac.m_ty, pitch |-> lilac.m_dim,
            w |-> lilac.m_tw, h |-> lilac.m_th],
           [lilac EXCEPT !.m_state = STATE_LOCK, !.locks = @ + 1])

lilac_unlock ==
  TileMove("lilac_unlock", 0, TRUE, STATE_LOCK, 0,
           [lilac EXCEPT !.m_state = STATE_TILE, !.locks = @ - 1])

\* A lilac_compile that does not ask whether all tiles were rendered.
lilac_compile_any(pPath) ==
  /\ TileClient
  /\ IF lilac.m_state # STATE_INIT \/ pPath = NULL
       THEN TileRaise("lilac_compile", pPath)
       ELSE TileReturn("lilac_compile", pPath, 0,
                       [lilac EXCEPT !.m_state = STATE_CLOSED,
                                     !.m_fh = NULL,
                                     !.compiles = @ + 1])

\* A lilac_compile that leaves the renderer as it was after lilac_init.
lilac_compile_open(pPath) ==
  /\ TileClient
  /\ IF \/ lilac.m_state # STATE_INIT
        \/ lilac.m_finished # lilac.m_tile_count
        \/ pPath = NULL
       THEN TileRaise("lilac_compile", pPath)
       ELSE TileReturn("lilac_compile", pPath, 0,
                       [lilac EXCEPT !.m_fh = NULL, !.compiles = @ + 1])

\* lilac_compile: the checks, the state is closed, and the temporary file
\* is copied to the PNG file and closed.
lilac_compile(pPath) ==
  /\ TileClient
  /\ IF \/ lilac.m_state # STATE_INIT
        \/ lilac.m_finished # lilac.m_tile_count
        \/ pPath = NULL
       THEN TileRaise("lilac_compile", pPath)
       ELSE TileReturn("lilac_compile", pPath, 0,
                       [lilac EXCEPT !.m_state = STATE_CLOSED,
                                     !.m_fh = NULL,
                                     !.compiles = @ + 1])

(***************************************************************************)
(* pshade.c, the programmable shader (src/pshade.c).  abort() ends the     *)
(* process: err becomes "fault".                                           *)
(***************************************************************************)

\* The static variables before the first call.  seen, ax and ay are not in
\* the code: they tell whether a request has passed the order check of
\* pshade_pixel, and the coordinates of the latest one that has.
ShadeIdle ==
  [m_L |-> NULL, s_last_x |-> 0, s_last_y |-> 0,
   seen |-> FALSE, ax |-> 0, ay |-> 0]

\* A caller of the module: nothing else is running.
ShadeClient ==
  /\ err = "none"
  /\ UNCHANGED <<cfg, ext, lilac, calls, nodes, m_ax>>
  /\ UNCHANGED renderVars
  /\ UNCHANGED vmVars

\* abort()
ShadeAbort(fn, arg) ==
  /\ err' = "fault"
  /\ last' = Call(fn, arg, FALSE, 0)
  /\ UNCHANGED pshade

ShadeReturn(fn, arg, ret, new) ==
  /\ pshade' = new
  /\ last' = Call(fn, arg, TRUE, ret)
  /\ UNCHANGED err

\* pshade_load: loaded tells whether the Lua state could be allocated and
\* the script loaded and run.
pshade_load(pScriptPath, perr, loaded) ==
  /\ ShadeClient
  /\ IF pshade.m_L # NULL \/ pScriptPath = NULL \/ perr = NULL
       THEN ShadeAbort("pshade_load", pScriptPath)
       ELSE ShadeReturn("pshade_load", pScriptPath,
                        IF loaded THEN 1 ELSE 0,
                        [pshade EXCEPT !.m_L = IF loaded THEN 1 ELSE NULL])

pshade_close ==
  /\ ShadeClient
  /\ ShadeReturn("pshade_close", 0, 0, [pshade EXCEPT !.m_L = NULL])

\* The two checks of the shader name: it starts with a letter or an
\* underscore, and holds only ASCII alphanumerics and underscores.
ShaderNameOk(name) ==
  /\ Len(name) > 0
  /\ name[1] \in UpperCase \cup LowerCase \cup {"_"}
  /\ \A k \in 1..Len(name) :
       name[k] \in UpperCase \cup LowerCase \cup Digits \cup {"_"}

\* A scanning order that keeps s_last_x when the request advances to a new
\* scanline.
ScanOrder_keep_x(p, x, y) ==
  IF y > p.s_last_y
    THEN [back |-> FALSE, p |-> [p EXCEPT !.s_last_y = y]]
  ELSE IF y = p.s_last_y
    THEN IF x > p.s_last_x
           THEN [back |-> FALSE, p |-> [p EXCEPT !.s_last_x = x]]
           ELSE [back |-> x # p.s_last_x, p |-> p]
    ELSE [back |-> TRUE, p |-> p]

\* The scanning order of pshade_pixel: the static variables after a request
\* at (x, y), and whether the request went backwards.
ScanOrder(p, x, y) ==
  IF y > p.s_last_y
    THEN [back |-> FALSE, p |-> [p EXCEPT !.s_last_x = x, !.s_last_y = y]]
  ELSE IF y = p.s_last_y
    THEN IF x > p.s_last_x
           THEN [back |-> FALSE, p |-> [p EXCEPT !.s_last_x = x]]
           ELSE [back |-> x # p.s_last_x, p |-> p]
    ELSE [back |-> TRUE, p |-> p]

\* What the call of the Lua function can give: an error code and zero, or
\* PSHADE_ERR_NONE and the pixel (here 1).
LuaResults ==
  {[perr |-> "PSHADE_ERR_NONE", pixel |-> 1]} \cup
  {[perr |-> e, pixel |-> 0] :
     e \in {"PSHADE_ERR_NOTFND", "PSHADE_ERR_CALL", "PSHADE_ERR_RETVAL",
            "PSHADE_ERR_RTYPE", "PSHADE_ERR_RRANGE"}}

\* pshade_pixel: the parameter checks, the scanning order, the checks of the
\* name, and the call of the shader.  The third element of the argument in
\* last tells how far the call went.  name is the string that pShader
\* points to.
pshade_pixel(pShader, name, x, y, width, height, perr) ==
  /\ ShadeClient
  /\ IF \/ pShader = NULL \/ perr = NULL
        \/ width < 1 \/ height < 1
        \/ x < 0 \/ x >= width \/ y < 0 \/ y >= height
       THEN ShadeAbort("pshade_pixel", <<x, y, "parameters">>)
       ELSE LET o == ScanOrder(pshade, x, y)
                p == [o.p EXCEPT !.seen = TRUE, !.ax = x, !.ay = y]
            IN  IF o.back
                  THEN ShadeAbort("pshade_pixel", <<x, y, "order">>)
                ELSE IF ~ShaderNameOk(name)
                  THEN /\ err' = "fault"
                       /\ last' = Call("pshade_pixel", <<x, y, "name">>,
                                       FALSE, 0)
                       /\ pshade' = p
                ELSE IF pshade.m_L = NULL
                  THEN ShadeReturn("pshade_pixel", <<x, y, "done">>,
                                   [perr |-> "PSHADE_ERR_UNLOAD", pixel |-> 0],
                                   p)
                ELSE \E r \in LuaResults :
                       ShadeReturn("pshade_pixel", <<x, y, "done">>, r, p)

(***************************************************************************)
(* node_external.c                                                         *)
(***************************************************************************)

\* The static variables before prep_external: no file and no buffer.  m_fp
\* is the content of the temporary file and m_pBuf the content of the
\* buffer, both in dwords; the empty sequence is NULL.  A dword of -1 has
\* never been written.
ExternalIdle == [m_fp |-> <<>>, m_pBuf |-> <<>>, m_offs |-> 0, m_plen |-> 0]

VmIdle ==
  /\ m_called = 0 /\ m_run = 0
  /\ m_ops_dict = rfdict_alloc /\ m_ops = NullOBlock
  /\ m_gs = NullIBlock /\ m_st = NullVBlock
  /\ m_ns_dict = rfdict_alloc /\ m_ns_flag = NullIBlock /\ m_ns = NullVBlock
  /\ prev = NoCall
  /\ declared = <<>>
  /\ heap = [p \in 1..MaxData |-> FreeData]
  /\ ps = NULL

(***************************************************************************)
(* The render module with any caller.                                      *)
(***************************************************************************)

RenderIdle ==
  /\ m_render = 0
  /\ m_offs = 0 /\ m_x = 0 /\ m_y = 0 /\ m_w = 0 /\ m_h = 0
  /\ m_pl = <<>>
  /\ goStarted = 0 /\ goReturned = 0
  /\ rootLog = <<>> /\ raster = <<>>

InitRender ==
  /\ cfg \in [w : 1..MaxDim, h : 1..MaxDim, depth : 1..MaxDepth,
              stack : {MaxStack}, names : {MaxNames}]
  /\ err = "none"
  /\ calls = <<>>
  /\ last = NoCall
  /\ nodes = <<>>
  /\ m_ax = NullSelect
  /\ lilac = LilacReady
  /\ pshade = ShadeIdle
  /\ ext = ExternalIdle
  /\ RenderIdle
  /\ VmIdle

NextRender ==
  \/ /\ calls = <<>> /\ goStarted = 0
     /\ \E fp \in NodeFns, c \in Colors : node_define([col |-> c], fp, 1)
  \/ \E n \in 0..Len(nodes) : node_invoke(n)
  \/ node_return
  \/ \E fp \in PrepFns \cup {NULLFP} : render_prepare(fp)
  \/ \E n \in 0..Len(nodes) : render_go(n)
  \/ render_go_prep
  \/ prep_return
  \/ render_go_enter
  \/ render_go_pixel
  \/ render_go_return
  \/ render_mode
  \/ render_offset
  \/ render_X
  \/ render_Y

SpecRender == InitRender /\ [][NextRender]_vars

(***************************************************************************)
(* The interpreter with any caller.                                        *)
(***************************************************************************)

InitVM ==
  /\ cfg \in [w : {1}, h : {1}, depth : {1},
              stack : 1..MaxStack, names : {0, 1}]
  /\ err = "none"
  /\ calls = <<>>
  /\ last = NoCall
  /\ nodes = <<>>
  /\ m_ax = NullSelect
  /\ lilac = LilacReady
  /\ pshade = ShadeIdle
  /\ ext = ExternalIdle
  /\ RenderIdle
  /\ VmIdle

NextVM ==
  \/ /\ calls = <<>> /\ m_called = 0
     /\ node_define([col |-> 10], "node_client", 1)
  \/ /\ m_ops.ocount < MaxOps
     /\ \E pOpName \in OpNames, fp \in {"op_client", NULLFP} :
          vm_register(pOpName, fp)
  \/ \E pp \in {NULL, 1} : vm_run(pp)
  \/ readEntity
  \/ \E pValue \in StringLits, pKey \in {<<>>, <<"p">>} :
       handleString("SNSTRING_QUOTED", pKey, pValue)
  \/ \E pValue \in ColorLits : handleString("SNSTRING_CURLY", <<>>, pValue)
  \/ \E pKey \in NumLits : handleNumeric(pKey)
  \/ /\ m_gs.icount < MaxGroup
     /\ handlBeginGroup
  \/ handleEndGroup
  \/ \E count \in Floats : handleArray(count)
  \/ \E pKey \in OpNames : handleOperation(pKey)
  \/ op_return
  \/ \E consumed \in BOOLEAN : vm_run_return(consumed)
  \/ vm_type
  \/ vm_pop_f
  \/ vm_pop_c
  \/ vm_pop_s
  \/ vm_pop_n
  \/ \E f \in Floats : vm_push_f(f)
  \/ \E col \in Colors : vm_push_c(col)
  \/ vm_push_s
  \/ \E pn \in 0..Len(nodes) : vm_push_n(pn)
  \/ vm_dup
  \/ vm_pop
  \/ \E pstr \in {<<>>, <<"a">>} : istr_new_ps(pstr)

SpecVM == InitVM /\ [][NextVM]_vars

(***************************************************************************)
(* The interpreter running a script of literals, groups, declarations,     *)
(* assignments and reads.                                                  *)
(***************************************************************************)

InitNames ==
  /\ cfg \in [w : {1}, h : {1}, depth : {1},
              stack : 1..MaxStack, names : 1..MaxNames]
  /\ err = "none"
  /\ calls = <<>>
  /\ last = NoCall
  /\ nodes = <<>>
  /\ m_ax = NullSelect
  /\ lilac = LilacReady
  /\ pshade = ShadeIdle
  /\ ext = ExternalIdle
  /\ RenderIdle
  /\ VmIdle

NextNames ==
  \/ \E pp \in {NULL, 1} : vm_run(pp)
  \/ readEntity
  \/ \E pValue \in StringLits :
       handleString("SNSTRING_QUOTED", <<>>, pValue)
  \/ \E pKey \in NumLits : handleNumeric(pKey)
  \/ \E status \in {"SNENTITY_VARIABLE", "SNENTITY_CONSTANT"},
        pKey \in Names : handleDeclare(status, pKey)
  \/ \E pKey \in Names : handleAssign(pKey)
  \/ \E pKey \in Names : handleGet(pKey)
  \/ /\ m_gs.icount < MaxGroup
     /\ handlBeginGroup
  \/ handleEndGroup
  \/ \E consumed \in BOOLEAN : vm_run_return(consumed)

SpecNames == InitNames /\ [][NextNames]_vars

(***************************************************************************)
(* The operation table with any caller.                                    *)
(***************************************************************************)

\* The name of the k-th operation that a caller registers: a letter and five
\* decimal digits.
OpName(k) ==
  <<"f", DigitChars[((k \div 10000) % 10) + 1],
    DigitChars[((k \div 1000) % 10) + 1],
    DigitChars[((k \div 100) % 10) + 1],
    DigitChars[((k \div 10) % 10) + 1],
    DigitChars[(k % 10) + 1]>>

\* The k of OpName(k).
OpIndex(pOpName) == DecimalValue(SubSeq(pOpName, 2, 6), 5)

\* A name of n characters.
LongName(n) == [k \in 1..n |-> "a"]

\* Names that validName accepts and names that it refuses.
GoodNames == {LongName(31), <<"Z", "_", "9">>}

BadNames == {<<>>, <<"9">>, <<"_">>, <<"a", "-">>, LongName(32)}

\* oblock_append: the capacity that holds n entries, by doubling from cap.
RECURSIVE OCapAfter(_, _)
OCapAfter(cap, n) ==
  IF n <= cap THEN cap
  ELSE OCapAfter(IF cap * 2 > MAX_OPERATION_COUNT
                   THEN MAX_OPERATION_COUNT ELSE cap * 2, n)

\* The table after vm_register has registered OpName(0) .. OpName(n - 1).
RegisteredTable(n) ==
  IF n = 0 THEN NullOBlock
  ELSE LET cap == OCapAfter(OBLOCK_INITIAL, n)
       IN  [omax |-> MAX_OPERATION_COUNT, ocount |-> n, ocap |-> cap,
            pBank |-> [k \in 1..cap |->
                         IF k <= n THEN "op_client" ELSE NULLFP]]

RegisteredDict(n) ==
  [pOpName \in {OpName(k) : k \in 0..(n - 1)} |-> OpIndex(pOpName)]

\* The caller has registered no operation yet, or all but the last MaxOps.
InitOps ==
  /\ cfg \in [w : {1}, h : {1}, depth : {1}, stack : {1}, names : {1}]
  /\ err = "none"
  /\ calls = <<>>
  /\ last = NoCall
  /\ nodes = <<>>
  /\ m_ax = NullSelect
  /\ lilac = LilacReady
  /\ pshade = ShadeIdle
  /\ ext = ExternalIdle
  /\ RenderIdle
  /\ m_called = 0 /\ m_run = 0
  /\ \E n \in {0, MAX_OPERATION_COUNT - MaxOps} :
       /\ m_ops = RegisteredTable(n)
       /\ m_ops_dict = RegisteredDict(n)
  /\ m_gs = NullIBlock /\ m_st = NullVBlock
  /\ m_ns_dict = rfdict_alloc /\ m_ns_flag = NullIBlock /\ m_ns = NullVBlock
  /\ prev = NoCall
  /\ declared = <<>>
  /\ heap = [p \in 1..MaxData |-> FreeData]
  /\ ps = NULL

NextOps ==
  \/ /\ calls = <<>> /\ m_called = 0
     /\ node_define([col |-> 10], "node_client", 1)
  \/ /\ \/ m_called = 1
        \/ m_ops.ocount <= OBLOCK_INITIAL + MaxOps
        \/ m_ops.ocount >= MAX_OPERATION_COUNT - MaxOps
     /\ \E pOpName \in {OpName(m_ops.ocount), OpName(0)}
                         \cup GoodNames \cup BadNames,
           fp \in {"op_client", NULLFP} :
          vm_register(pOpName, fp)
  \/ vm_run(1)
  \/ \E pKey \in {OpName(0), LongName(31), <<"n", "o">>} :
       handleOperation(pKey)
  \/ op_return
  \/ \E pn \in 1..Len(nodes) : vm_push_n(pn)
  \/ \E consumed \in BOOLEAN : vm_run_return(consumed)

SpecOps == InitOps /\ [][NextOps]_vars

(***************************************************************************)
(* The growable arrays: scripts that push numbers, open and close groups   *)
(* and declare variables until an array is full, after a caller has        *)
(* registered operations.                                                  *)
(***************************************************************************)

\* Values of stack-height: less than the initial capacity, and two that the
\* doubling of the capacity does not meet.
StackLimits == {1, VBLOCK_INITIAL + 1, 2 * VBLOCK_INITIAL + 1}

\* Values of name-limit: one that the doubling of the capacity does not
\* meet, and one that needs more flag words than the initial capacity of
\* the flag array.
NameLimits == {VBLOCK_INITIAL + 1, 32 * IBLOCK_INITIAL + 33}

\* vm_run: the number of flag words for a name limit.
FlagWords(names) == (names \div 32) + (IF names % 32 > 0 THEN 1 ELSE 0)

\* iblock_append: the capacity that holds n open groups, by doubling.
RECURSIVE ICapAfter(_, _)
ICapAfter(cap, n) ==
  IF n <= cap THEN cap
  ELSE ICapAfter(IF cap * 2 > MAX_GROUP_DEPTH
                   THEN MAX_GROUP_DEPTH ELSE cap * 2, n)

\* The grouping stack after n begin-group entities at the start of a script.
OpenGroups(n) ==
  LET cap == ICapAfter(IBLOCK_INITIAL, n)
  IN  [imax |-> MAX_GROUP_DEPTH, icount |-> n, icap |-> cap,
       pBank |-> [k \in 1..cap |-> 0]]

\* Either no function of vm.c was called yet, or all operations but the
\* last MaxOps are registered, or vm_run has read a script that begins with
\* all open groups but the last MaxGroup.
InitGrow ==
  /\ cfg \in [w : {1}, h : {1}, depth : {1},
              stack : StackLimits, names : NameLimits]
  /\ err = "none"
  /\ last = NoCall
  /\ nodes = <<>>
  /\ m_ax = NullSelect
  /\ lilac = LilacReady
  /\ pshade = ShadeIdle
  /\ ext = ExternalIdle
  /\ RenderIdle
  /\ prev = NoCall
  /\ declared = <<>>
  /\ heap = [p \in 1..MaxData |-> FreeData]
  /\ ps = NULL
  /\ m_ns_dict = rfdict_alloc
  /\ \/ /\ calls = <<>>
        /\ m_called = 0 /\ m_run = 0
        /\ \E n \in {0, MAX_OPERATION_COUNT - MaxOps} :
             /\ m_ops = RegisteredTable(n)
             /\ m_ops_dict = RegisteredDict(n)
        /\ m_gs = NullIBlock /\ m_st = NullVBlock
        /\ m_ns_flag = NullIBlock /\ m_ns = NullVBlock
     \/ /\ calls = <<[fn |-> "vm_run"]>>
        /\ m_called = 1 /\ m_run = 1
        /\ m_ops = NullOBlock /\ m_ops_dict = rfdict_alloc
        /\ m_gs = OpenGroups(MAX_GROUP_DEPTH - MaxGroup)
        /\ m_st = vblock_alloc(cfg.stack)
        /\ m_ns_flag = iblock_alloc(FlagWords(cfg.names))
        /\ m_ns = vblock_alloc(cfg.names)

\* The caller runs a script with no operation or with one more than the
\* initial capacity of the table.
\* The scripts open groups on an empty stack before any declaration, close
\* no group of the MAX_GROUP_DEPTH - MaxGroup that a script began with, and
\* declare a variable outside groups with one number on the stack.
NextGrow ==
  \/ /\ m_called = 0
     /\ \/ m_ops.ocount <= OBLOCK_INITIAL + MaxOps
        \/ m_ops.ocount >= MAX_OPERATION_COUNT - MaxOps
     /\ vm_register(OpName(m_ops.ocount), "op_client")
  \/ /\ m_ops.ocount \in {0, OBLOCK_INITIAL + 1}
     /\ vm_run(1)
  \/ /\ m_ns.vcount > 0 => m_st.vcount = 0
     /\ handleNumeric(<<"0">>)
  \/ /\ m_ns.vcount = 0 /\ m_st.vcount = 0
     /\ \/ m_gs.icount <= IBLOCK_INITIAL + MaxGroup
        \/ m_gs.icount >= MAX_GROUP_DEPTH - MaxGroup
     /\ handlBeginGroup
  \/ /\ \/ m_gs.icount <= IBLOCK_INITIAL + MaxGroup + 1
        \/ m_gs.icount > MAX_GROUP_DEPTH - MaxGroup
     /\ handleEndGroup
  \/ /\ m_gs.icount = 0 /\ m_st.vcount = 1
     /\ handleDeclare("SNENTITY_VARIABLE", OpName(m_ns.vcount))

SpecGrow == InitGrow /\ [][NextGrow]_vars

(***************************************************************************)
(* Every way to push: scripts of valid literals, array markers, one        *)
(* variable and its reads, and groups, with an operation function that     *)
(* pushes, duplicates and pops.                                            *)
(***************************************************************************)

InitPush ==
  /\ cfg \in [w : {1}, h : {1}, depth : {1},
              stack : 1..MaxStack, names : {1}]
  /\ err = "none"
  /\ calls = <<>>
  /\ last = NoCall
  /\ nodes = <<>>
  /\ m_ax = NullSelect
  /\ lilac = LilacReady
  /\ pshade = ShadeIdle
  /\ ext = ExternalIdle
  /\ RenderIdle
  /\ VmIdle

NextPush ==
  \/ /\ calls = <<>> /\ m_called = 0 /\ nodes = <<>>
     /\ node_define([col |-> 10], "node_client", 1)
  \/ /\ m_ops.ocount < MaxOps
     /\ vm_register(<<"f">>, "op_client")
  \/ vm_run(1)
  \/ handleString("SNSTRING_QUOTED", <<>>, <<"a">>)
  \/ handleString("SNSTRING_CURLY", <<>>,
                  <<"0", "0", "0", "0", "0", "0", "0", "A">>)
  \/ handleNumeric(<<"1">>)
  \/ handleArray(1)
  \/ handleDeclare("SNENTITY_VARIABLE", <<"x">>)
  \/ /\ rfdict_has(m_ns_dict, <<"x">>)
     /\ handleGet(<<"x">>)
  \/ /\ m_gs.icount < MaxGroup
     /\ handlBeginGroup
  \/ handleEndGroup
  \/ handleOperation(<<"f">>)
  \/ op_return
  \/ vm_push_f(1)
  \/ vm_push_c(10)
  \/ vm_push_s
  \/ \E pn \in 1..Len(nodes) : vm_push_n(pn)
  \/ vm_dup
  \/ vm_pop
  \/ istr_new_ps(<<"a">>)

SpecPush == InitPush /\ [][NextPush]_vars

(***************************************************************************)
(* node_define with any caller and any depth.                              *)
(***************************************************************************)

InitNodes ==
  /\ cfg \in [w : {1}, h : {1}, depth : 1..(MaxDepth + 1),
              stack : {1}, names : {1}]
  /\ err = "none"
  /\ calls = <<>>
  /\ last = NoCall
  /\ nodes = <<>>
  /\ m_ax = NullSelect
  /\ lilac = LilacReady
  /\ pshade = ShadeIdle
  /\ ext = ExternalIdle
  /\ RenderIdle
  /\ VmIdle

NextNodes ==
  \/ \E c \in Colors, fp \in NodeFns \cup {NULLFP},
        depth \in (-1)..(MaxDepth + 2) :
       node_define([col |-> c], fp, depth)
  \/ \E pNode \in 0..Len(nodes) : node_depth(pNode)

SpecNodes == InitNodes /\ [][NextNodes]_vars

(***************************************************************************)
(* The stack functions with any caller: the top level of a program, an     *)
(* operation function, a preparation function and a node function.         *)
(***************************************************************************)

InitClients ==
  /\ cfg \in [w : {1}, h : {1}, depth : {1},
              stack : 1..MaxStack, names : {1}]
  /\ err = "none"
  /\ calls = <<>>
  /\ last = NoCall
  /\ nodes = <<>>
  /\ m_ax = NullSelect
  /\ lilac = LilacReady
  /\ pshade = ShadeIdle
  /\ ext = ExternalIdle
  /\ RenderIdle
  /\ VmIdle

NextClients ==
  \/ /\ calls = <<>> /\ m_called = 0 /\ nodes = <<>>
     /\ node_define([col |-> 10], "node_client", 1)
  \/ /\ calls = <<>> /\ m_pl = <<>>
     /\ render_prepare("prep_client")
  \/ /\ m_ops.ocount < MaxOps
     /\ vm_register(<<"f">>, "op_client")
  \/ vm_run(1)
  \/ handleOperation(<<"f">>)
  \/ op_return
  \/ vm_run_return(TRUE)
  \/ \E pn \in 1..Len(nodes) : render_go(pn)
  \/ render_go_prep
  \/ prep_return
  \/ render_go_enter
  \/ render_go_pixel
  \/ node_return
  \/ render_go_return
  \/ vm_type
  \/ vm_pop_f
  \/ vm_pop_c
  \/ vm_pop_s
  \/ vm_pop_n
  \/ \E f \in Floats : vm_push_f(f)
  \/ \E col \in Colors : vm_push_c(col)
  \/ vm_push_s
  \/ \E pn \in 1..Len(nodes) : vm_push_n(pn)
  \/ vm_dup
  \/ vm_pop
  \/ \E pstr \in {<<"a">>} : istr_new_ps(pstr)

SpecClients == InitClients /\ [][NextClients]_vars

(***************************************************************************)
(* The program: main of lilac.c with the plug-ins of plugin.c.             *)
(***************************************************************************)

\* plugin_init: node_constant_init registers "constant"; node_external_init
\* registers prep_external and "external"; node_select_init registers
\* "select_new", "select_map" and "select_finish".
plugin_init ==
  /\ err = "none" /\ calls = <<>>
  /\ m_called = 0 /\ m_ops = NullOBlock /\ m_pl = <<>>
  /\ m_pl' = <<"prep_external">>
  /\ m_ops' =
       oblock_append(
         oblock_append(
           oblock_append(
             oblock_append(
               oblock_append(oblock_alloc(MAX_OPERATION_COUNT),
                             "op_constant").pb,
               "op_external").pb,
             "op_select_new").pb,
           "op_select_map").pb,
         "op_select_finish").pb
  /\ m_ops_dict' =
       rfdict_insert(
         rfdict_insert(
           rfdict_insert(
             rfdict_insert(
               rfdict_insert(m_ops_dict, OP_CONSTANT, 0),
               OP_EXTERNAL, 1),
             OP_SELECT_NEW, 2),
           OP_SELECT_MAP, 3),
         OP_SELECT_FINISH, 4)
  /\ last' = VCall("vm_register", OP_SELECT_FINISH, TRUE, 0)
  /\ prev' = NextPrev
  /\ UNCHANGED <<cfg, pshade, ext, lilac, m_ax, err, calls, nodes>>
  /\ UNCHANGED <<m_render, m_offs, m_x, m_y, m_w, m_h,
                 goStarted, goReturned, rootLog, raster>>
  /\ UNCHANGED <<m_called, m_run, m_gs, m_st, m_ns_dict, m_ns_flag, m_ns,
                 declared, heap, ps>>

\* main has initialised the plug-ins.
PluginsReady == m_ops # NullOBlock

\* readSignature, readMeta, meta_finish or configVars stops on an error in
\* the header of the script.
readMeta ==
  /\ err = "none" /\ calls = <<>>
  /\ PluginsReady /\ m_called = 0
  /\ UNCHANGED renderVars
  /\ VmRaise("readMeta", 0)

\* main: pRoot = vm_run(pr, pIn).
main_vm_run ==
  /\ calls = <<>>
  /\ PluginsReady /\ m_called = 0
  /\ vm_run(1)

\* m_count of node_external.c: the number of external nodes.
m_count ==
  Cardinality({k \in 1..Len(nodes) : nodes[k].fp = "node_external"})

\* op_constant: vm_type, vm_pop_c, node_define and vm_push_n.
op_constant ==
  /\ err = "none" /\ calls # <<>>
  /\ Top.fn = "op" /\ Top.fp = "op_constant"
  /\ UNCHANGED renderVars
  /\ IF m_run = 0 \/ TopType # VM_TYPE_COLOR \/ 1 > cfg.depth
       THEN VmRaise("op_constant", 0)
       ELSE LET g  == vblock_get(heap, m_st, m_st.vcount - 1)
                d  == vblock_reduce(g.h, m_st)
                z  == variant_reset(d.h, g.v)
                pn == Len(nodes) + 1
                pd == [col |-> g.v.val]
            IN  PushOn("op_constant", pn,
                       [Cur EXCEPT
                          !.st = d.pb, !.heap = z.h,
                          !.nodes = Append(@, [pInstance |-> pd,
                                               fp |-> "node_constant",
                                               depth |-> 1])],
                       variant_setNode(pn), NULL)
  /\ calls' = IF err' = "none" THEN Pop ELSE calls

\* op_external: vm_type, vm_pop_s, the two limits (room tells whether the
\* new node fits into both), the new link with a copy of the path,
\* node_define, vm_push_n and the reset of the local string.
op_external ==
  /\ err = "none" /\ calls # <<>>
  /\ Top.fn = "op" /\ Top.fp = "op_external"
  /\ UNCHANGED renderVars
  /\ \E room \in BOOLEAN :
       IF m_run = 0 \/ TopType # VM_TYPE_STRING \/ ~room \/ 1 > cfg.depth
         THEN VmRaise("op_external", 0)
         ELSE LET g  == vblock_get(heap, m_st, m_st.vcount - 1)
                  d  == vblock_reduce(g.h, m_st)
                  c  == istr_copy(d.h, NULL, g.v.val)
                  z  == variant_reset(c.h, g.v)
                  l  == istr_copy(z.h, NULL, c.pRef)
                  pn == Len(nodes) + 1
                  pd == [i |-> m_count, iPath |-> l.pRef]
              IN  PushOn("op_external", pn,
                         [Cur EXCEPT
                            !.st = d.pb, !.heap = l.h,
                            !.nodes = Append(@, [pInstance |-> pd,
                                                 fp |-> "node_external",
                                                 depth |-> 1])],
                         variant_setNode(pn), c.pRef)
  /\ calls' = IF err' = "none" THEN Pop ELSE calls

\* A main that would go on to render_go while vm_run is still in its loop.
main_render_go_early ==
  /\ err = "none" /\ calls # <<>>
  /\ Top.fn = "vm_run"
  /\ TopType = VM_TYPE_NODE
  /\ goStarted < MaxGo
  /\ UNCHANGED vmVars
  /\ calls' = Push([fn |-> "render_go",
                    pNode |-> m_st.pBank[m_st.vcount].val, pl |-> 1,
                    phase |-> "prep", called |-> <<>>])
  /\ goStarted' = goStarted + 1
  /\ last' = Call("render_go", m_st.pBank[m_st.vcount].val, TRUE, 0)
  /\ UNCHANGED <<cfg, pshade, ext, lilac, m_ax, err, nodes>>
  /\ UNCHANGED <<m_render, m_offs, m_x, m_y, m_w, m_h, m_pl,
                 goReturned, rootLog, raster>>

\* main: render_go(pRoot), with the node that vm_run returned.
main_render_go ==
  /\ err = "none" /\ calls = <<>>
  /\ last.fn = "vm_run" /\ last.ok
  /\ render_go(last.ret)

\* prep_external stops on an error: the temporary file, or an image that
\* cannot be read or has the wrong dimensions.
prep_external_error ==
  /\ err = "none" /\ calls # <<>>
  /\ Top.fn = "prep" /\ Top.fp = "prep_external"
  /\ m_count > 0
  /\ Raise("prep_external", 0)
  /\ UNCHANGED renderVars
  /\ UNCHANGED vmVars

\* node_external stops on an input error in buffer_offs.
node_external_error ==
  /\ err = "none" /\ calls # <<>>
  /\ Top.fn = "node" /\ nodes[Top.pNode].fp = "node_external"
  /\ Raise("node_external", Top.pNode)
  /\ UNCHANGED renderVars
  /\ UNCHANGED vmVars

\* The pixel at offset k of the i-th external image.  The images of this
\* model hold a different value in every pixel, and no two images share one.
ImagePixel(i, k) == i * (cfg.w * cfg.h) + k

\* What reading a dword of the buffer can give: what fread stored there,
\* or, in memory that malloc returned and nothing has written, any value.
DwordRead(d, i) ==
  IF d = -1
    THEN {ImagePixel(i, 0), ImagePixel(i, cfg.w * cfg.h - 1),
          ImagePixel(m_count, 0)}
    ELSE {d}

\* buffer_offs on the static variables e: ok tells whether it returned, and
\* po is what it returned.  fread stores pcount interleaved pixels of
\* m_count dwords at the start of the buffer.
buffer_offs(e, offs) ==
  LET max_offs == cfg.w * cfg.h - 1
      o        == IF offs = -1 THEN 0 ELSE offs
      reload   == offs = -1 \/ o < e.m_offs \/ o >= e.m_offs + e.m_plen
      pcount   == IF e.m_plen < max_offs - o THEN e.m_plen ELSE max_offs - o
      n        == IF reload
                    THEN [e EXCEPT
                            !.m_pBuf = [d \in 1..Len(e.m_pBuf) |->
                                          IF d <= pcount * m_count
                                            THEN e.m_fp[o * m_count + d]
                                            ELSE e.m_pBuf[d]],
                            !.m_offs = o]
                    ELSE e
  IN  IF \/ e.m_fp = <<>> \/ e.m_pBuf = <<>>
         \/ offs < -1 \/ offs > max_offs
        THEN [ok |-> FALSE, ext |-> e, po |-> 0]
        ELSE [ok |-> TRUE, ext |-> n, po |-> (o - n.m_offs) * m_count]

\* prep_external: the state check, the temporary file with the pixels of
\* the images interleaved (the subpixel i of the interleaved pixel k is
\* written at the dword k * m_count + i), the buffer of m_plen interleaved
\* pixels, buffer_offs(-1), and the return to render_go.
prep_external ==
  /\ err = "none" /\ calls # <<>>
  /\ Top.fn = "prep" /\ Top.fp = "prep_external"
  /\ UNCHANGED renderVars
  /\ UNCHANGED vmVars
  /\ IF ext.m_fp # <<>> \/ ext.m_pBuf # <<>>
       THEN Raise("prep_external", 0)
       ELSE LET ipsize == m_count * 4
                fit    == (cfg.ram * 1024) \div ipsize
                plen   == IF fit < 1 THEN 1 ELSE fit
                e      == [m_fp   |-> [d \in 1..(cfg.w * cfg.h * m_count) |->
                                         ImagePixel((d - 1) % m_count,
                                                    (d - 1) \div m_count)],
                           m_pBuf |-> [d \in 1..(plen * m_count) |-> -1],
                           m_offs |-> 0,
                           m_plen |-> plen]
            IN  /\ ext' = IF m_count > 0 THEN buffer_offs(e, -1).ext ELSE ext
                /\ calls' = [Pop EXCEPT ![Len(calls) - 1].pl = @ + 1]
                /\ UNCHANGED <<cfg, pshade, lilac, m_ax, err, last, nodes>>

\* node_external: the state check, render_offset, buffer_offs, and the
\* subpixel of the node in the buffer; then the return to the caller as
\* for every node function.
node_external ==
  /\ err = "none" /\ calls # <<>>
  /\ Top.fn = "node" /\ nodes[Top.pNode].fp = "node_external"
  /\ UNCHANGED vmVars
  /\ LET pd == nodes[Top.pNode].pInstance
         b  == buffer_offs(ext, m_offs)
     IN  IF ~b.ok
           THEN Raise("node_external", Top.pNode) /\ UNCHANGED renderVars
           ELSE \E col \in DwordRead(b.ext.m_pBuf[b.po + pd.i + 1], pd.i) :
                  /\ ext' = b.ext
                  /\ calls' = Pop
                  /\ last' = Call("node_invoke", Top.pNode, TRUE, col)
                  /\ IF Top.root
                       THEN /\ raster' = Append(raster, col)
                            /\ m_offs' = m_offs + 1
                            /\ IF m_x + 1 < m_w
                                 THEN m_x' = m_x + 1 /\ m_y' = m_y
                                 ELSE /\ m_y' = m_y + 1
                                      /\ m_x' = IF m_y + 1 < m_h
                                                  THEN 0 ELSE m_x + 1
                       ELSE UNCHANGED <<raster, m_offs, m_x, m_y>>
                  /\ UNCHANGED <<cfg, pshade, lilac, m_ax, err, nodes>>
                  /\ UNCHANGED <<m_render, m_w, m_h, m_pl, goStarted,
                                 goReturned, rootLog>>

InitMain ==
  /\ cfg \in [w : 1..MaxDim, h : 1..MaxDim, depth : {1},
              stack : 1..MaxStack, names : {1}]
  /\ err = "none"
  /\ calls = <<>>
  /\ last = NoCall
  /\ nodes = <<>>
  /\ m_ax = NullSelect
  /\ lilac = LilacReady
  /\ pshade = ShadeIdle
  /\ ext = ExternalIdle
  /\ RenderIdle
  /\ VmIdle

NextMain ==
  \/ plugin_init
  \/ readMeta
  \/ main_vm_run
  \/ readEntity
  \/ \E pValue \in StringLits :
       handleString("SNSTRING_QUOTED", <<>>, pValue)
  \/ \E pValue \in ColorLits : handleString("SNSTRING_CURLY", <<>>, pValue)
  \/ \E pKey \in NumLits : handleNumeric(pKey)
  \/ \E pKey \in {OP_CONSTANT, OP_EXTERNAL} \cup OpNames :
       handleOperation(pKey)
  \/ /\ Len(nodes) < MaxNodes
     /\ op_constant
  \/ /\ Len(nodes) < MaxNodes
     /\ op_external
  \/ \E consumed \in BOOLEAN : vm_run_return(consumed)
  \/ main_render_go
  \/ render_go_prep
  \/ prep_return
  \/ prep_external_error
  \/ render_go_enter
  \/ render_go_pixel
  \/ node_return
  \/ node_external_error
  \/ render_go_return

Spec == InitMain /\ [][NextMain]_vars

(***************************************************************************)
(* The program with images of up to MaxPixels pixels, and the buffer of    *)
(* the external nodes.                                                     *)
(***************************************************************************)

\* The dimensions of the images: one pixel, as many pixels as the buffer of
\* one external node holds with external-ram-kib 1 (256), and two images
\* of more pixels than that.
ExternalDims == {<<1, 1>>, <<16, 16>>, <<16, 17>>, <<MaxPixels, 1>>}

InitExternal ==
  /\ cfg \in {[w |-> d[1], h |-> d[2], depth |-> 1, stack |-> MaxStack,
               names |-> 1, ram |-> r] :
               d \in ExternalDims, r \in 1..MaxRam}
  /\ err = "none"
  /\ calls = <<>>
  /\ last = NoCall
  /\ nodes = <<>>
  /\ m_ax = NullSelect
  /\ lilac = LilacReady
  /\ pshade = ShadeIdle
  /\ ext = ExternalIdle
  /\ RenderIdle
  /\ VmIdle

NextExternal ==
  \/ plugin_init
  \/ readMeta
  \/ main_vm_run
  \/ readEntity
  \/ \E pValue \in {<<"a">>} :
       handleString("SNSTRING_QUOTED", <<>>, pValue)
  \/ \E pValue \in ColorLits : handleString("SNSTRING_CURLY", <<>>, pValue)
  \/ \E pKey \in {OP_CONSTANT, OP_EXTERNAL} : handleOperation(pKey)
  \/ /\ Len(nodes) < MaxNodes
     /\ op_constant
  \/ /\ Len(nodes) < MaxNodes
     /\ op_external
  \/ \E consumed \in BOOLEAN : vm_run_return(consumed)
  \/ main_render_go
  \/ render_go_prep
  \/ prep_external
  \/ prep_external_error
  \/ render_go_enter
  \/ render_go_pixel
  \/ /\ calls # <<>>
     /\ Top.fn = "node"
     /\ nodes[Top.pNode].fp # "node_external"
     /\ node_return
  \/ node_external
  \/ render_go_return

SpecExternal == InitExternal /\ [][NextExternal]_vars

(***************************************************************************)
(* The program with scripts that define constant nodes and select nodes,   *)
(* and render an image of one pixel.                                       *)
(***************************************************************************)

\* The names of the operations in these scripts.
SelectOps == {OP_CONSTANT, OP_SELECT_NEW, OP_SELECT_MAP, OP_SELECT_FINISH}

\* The colour literals in these scripts, for the colours 10 and 11.
SelectColors == {<<"0", "0", "0", "0", "0", "0", "0", "A">>,
                 <<"0", "0", "0", "0", "0", "0", "0", "b">>}

InitSelect ==
  /\ cfg \in [w : {1}, h : {1}, depth : 1..(MaxDepth + 2),
              stack : {MaxStack}, names : {1}]
  /\ err = "none"
  /\ calls = <<>>
  /\ last = NoCall
  /\ nodes = <<>>
  /\ m_ax = NullSelect
  /\ lilac = LilacReady
  /\ pshade = ShadeIdle
  /\ ext = ExternalIdle
  /\ RenderIdle
  /\ VmIdle

NextSelect ==
  \/ plugin_init
  \/ main_vm_run
  \/ \E pValue \in SelectColors :
       handleString("SNSTRING_CURLY", <<>>, pValue)
  \/ \E pKey \in SelectOps : handleOperation(pKey)
  \/ /\ Len(nodes) < MaxGraph
     /\ op_constant
  \/ op_select_new
  \/ op_select_map
  \/ op_select_finish
  \/ vm_run_return(TRUE)
  \/ main_render_go
  \/ render_go_prep
  \/ prep_return
  \/ render_go_enter
  \/ render_go_pixel
  \/ node_select_index
  \/ node_select_value
  \/ node_return
  \/ render_go_return

SpecSelect == InitSelect /\ [][NextSelect]_vars

(***************************************************************************)
(* istr.c with a caller that has two ISTR structures as local variables    *)
(* and calls istr_new, istr_copy, istr_reset and istr_concat on them.      *)
(***************************************************************************)

\* A string of n characters c.
Chars(c, n) == [k \in 1..n |-> c]

\* The strings that the caller makes: one of one character, one of more
\* than half the maximum length, and one of the maximum length.
ConcatStrings ==
  {Chars("a", 1), Chars("b", (MAX_DATA_LEN + 1) \div 2),
   Chars("b", MAX_DATA_LEN)}

\* The local structures of the caller.
Locals == 1..2

\* The caller is running; str holds the pRef of each of its structures and
\* n counts its calls of istr_concat.
CallerRuns ==
  /\ err = "none" /\ calls # <<>>
  /\ Top.fn = "client"
  /\ UNCHANGED renderVars
  /\ UNCHANGED <<m_called, m_run, m_ops_dict, m_ops, m_gs, m_st, m_ns_dict,
                 m_ns_flag, m_ns, prev, declared, ps>>

\* istr_new(&str[i], pstr)
caller_istr_new(i, pstr) ==
  /\ CallerRuns
  /\ LET r == istr_new(heap, Top.str[i], pstr)
     IN  /\ heap' = r.h
         /\ calls' = [calls EXCEPT ![Len(calls)].str[i] = r.pRef]
         /\ last' = Call("istr_new", i, TRUE, r.pRef)
  /\ UNCHANGED <<cfg, pshade, ext, lilac, m_ax, err, nodes>>

\* istr_copy(&str[i], &str[j]); nothing happens for one structure.
caller_istr_copy(i, j) ==
  /\ CallerRuns
  /\ LET r == istr_copy(heap, Top.str[i], Top.str[j])
     IN  /\ heap' = IF i = j THEN heap ELSE r.h
         /\ calls' = [calls EXCEPT ![Len(calls)].str[i] = Top.str[j]]
         /\ last' = Call("istr_copy", <<i, j>>, TRUE, Top.str[j])
  /\ UNCHANGED <<cfg, pshade, ext, lilac, m_ax, err, nodes>>

\* istr_reset(&str[i])
caller_istr_reset(i) ==
  /\ CallerRuns
  /\ heap' = istr_reset(heap, Top.str[i])
  /\ calls' = [calls EXCEPT ![Len(calls)].str[i] = NULL]
  /\ last' = Call("istr_reset", i, TRUE, NULL)
  /\ UNCHANGED <<cfg, pshade, ext, lilac, m_ax, err, nodes>>

\* istr_concat(&str[r], &str[a], &str[b]).  When strcpy and strcat write
\* past the allocation the process can die of it, at once or in a later
\* call of the allocator, or go on with the characters where they were
\* written.
caller_istr_concat(r, a, b) ==
  /\ CallerRuns
  /\ LET c == istr_concat(heap, Top.str[r], Top.str[a], Top.str[b],
                          r = a, r = b)
     IN  IF ~c.ok
           THEN /\ Raise("istr_concat", <<r, a, b>>)
                /\ UNCHANGED heap
           ELSE \E dies \in {FALSE, c.ub} :
                  /\ err' = IF dies THEN "fault" ELSE "none"
                  /\ last' = Call("istr_concat", <<r, a, b>>, ~dies, c.pRef)
                  /\ heap' = IF dies THEN heap ELSE c.h
                  /\ calls' = IF dies THEN calls
                              ELSE [calls EXCEPT
                                      ![Len(calls)].str[r] = c.pRef,
                                      ![Len(calls)].n = @ + 1]
                  /\ UNCHANGED <<cfg, pshade, ext, lilac, m_ax, nodes>>

InitConcat ==
  /\ cfg = [w |-> 1, h |-> 1, depth |-> 1, stack |-> 1, names |-> 1]
  /\ err = "none"
  /\ calls = <<[fn |-> "client", str |-> [i \in Locals |-> NULL], n |-> 0]>>
  /\ last = NoCall
  /\ nodes = <<>>
  /\ m_ax = NullSelect
  /\ lilac = LilacReady
  /\ pshade = ShadeIdle
  /\ ext = ExternalIdle
  /\ RenderIdle
  /\ m_called = 0 /\ m_run = 0
  /\ m_ops_dict = rfdict_alloc /\ m_ops = NullOBlock
  /\ m_gs = NullIBlock /\ m_st = NullVBlock
  /\ m_ns_dict = rfdict_alloc /\ m_ns_flag = NullIBlock /\ m_ns = NullVBlock
  /\ prev = NoCall
  /\ declared = <<>>
  /\ heap = [p \in 1..(MaxData + 1) |-> FreeData]
  /\ ps = NULL

\* The blocks of the model are few: a call that allocates is taken when a
\* block is free for it.
NextConcat ==
  \/ \E i \in Locals, pstr \in ConcatStrings :
       /\ calls # <<>>
       /\ FreeSlots(istr_reset(heap, Top.str[i])) # {}
       /\ caller_istr_new(i, pstr)
  \/ \E i \in Locals, j \in Locals : caller_istr_copy(i, j)
  \/ \E i \in Locals : caller_istr_reset(i)
  \/ \E r \in Locals, a \in Locals, b \in Locals :
       /\ calls # <<>>
       /\ Top.n < MaxConcat
       /\ FreeSlots(heap) # {}
       /\ caller_istr_concat(r, a, b)

SpecConcat == InitConcat /\ [][NextConcat]_vars

(***************************************************************************)
(* The tile renderer with any client.                                      *)
(***************************************************************************)

\* The widths and heights that the client asks for: none, one pixel, one
\* tile, a pixel more, and two tiles and a pixel.
ImageSizes == {0, 1, LILAC_MIN_TILE, LILAC_MIN_TILE + 1, MaxImage}

\* The tile dimensions that the client asks for.
TileDims == {LILAC_MIN_TILE - 1, LILAC_MIN_TILE, 2 * LILAC_MIN_TILE}

\* The paths that the client gives to lilac_compile.
OutPaths == {NULL, 1}

InitTile ==
  /\ cfg = [w |-> 1, h |-> 1, depth |-> 1, stack |-> 1, names |-> 1]
  /\ err = "none"
  /\ calls = <<>>
  /\ last = NoCall
  /\ nodes = <<>>
  /\ m_ax = NullSelect
  /\ lilac = LilacReady
  /\ pshade = ShadeIdle
  /\ ext = ExternalIdle
  /\ RenderIdle
  /\ VmIdle

NextTile ==
  \/ \E w \in ImageSizes, h \in ImageSizes, tile \in TileDims :
       lilac_init(w, h, tile)
  \/ lilac_width
  \/ lilac_height
  \/ lilac_tiles
  \/ lilac_color
  \/ lilac_begin_tile
  \/ lilac_end_tile
  \/ lilac_begin_path
  \/ lilac_end_path
  \/ \E finite \in BOOLEAN : lilac_line(finite)
  \/ \E valid \in BOOLEAN : lilac_dot(valid)
  \/ \E pLock \in OutPaths : lilac_lock(pLock)
  \/ lilac_unlock
  \/ \E pPath \in OutPaths : lilac_compile(pPath)

SpecTile == InitTile /\ [][NextTile]_vars

(***************************************************************************)
(* A client of the programmable shader.                                    *)
(***************************************************************************)

\* The shader names a client passes: the empty name, two names in order,
\* one that starts with a digit and one with a character that is not
\* allowed.
ShaderNames == {<<>>, <<"f">>, <<"_", "1">>, <<"1">>, <<"f", "-">>}

InitShade ==
  /\ cfg = [w |-> 1, h |-> 1, depth |-> 1, stack |-> 1, names |-> 1]
  /\ err = "none"
  /\ calls = <<>>
  /\ last = NoCall
  /\ nodes = <<>>
  /\ m_ax = NullSelect
  /\ lilac = LilacReady
  /\ pshade = ShadeIdle
  /\ ext = ExternalIdle
  /\ RenderIdle
  /\ VmIdle

NextShade ==
  \/ \E pScriptPath \in {NULL, 1}, perr \in {NULL, 1}, loaded \in BOOLEAN :
       pshade_load(pScriptPath, perr, loaded)
  \/ pshade_close
  \/ \E pShader \in {NULL, 1}, name \in ShaderNames,
        x \in (-1)..MaxShade, y \in (-1)..MaxShade,
        width \in {0, MaxShade - 1, MaxShade}, height \in {0, MaxShade},
        perr \in {NULL, 1} :
       pshade_pixel(pShader, name, x, y, width, height, perr)

SpecShade == InitShade /\ [][NextShade]_vars

(***************************************************************************)
(* Claims about the render loop, checked under SpecRender.                 *)
(***************************************************************************)

\* C1: in one render_go call on a width x height image the k-th call of the
\* root node (k = 0, 1, ...) sees render_offset() = k, render_X() = k mod
\* width and render_Y() = k div width, and when render_go has returned the
\* root node has been called exactly width * height times.
C1_RenderOrder ==
  /\ \A k \in 1..Len(rootLog) :
       rootLog[k] = <<k - 1, (k - 1) % cfg.w, (k - 1) \div cfg.w>>
  /\ Len(rootLog) <= cfg.w * cfg.h
  /\ (goReturned > 0 /\ Phase # "Rendering") => Len(rootLog) = cfg.w * cfg.h

\* A 2 x 2 image has been rendered completely.
C1_Witness ==
  /\ cfg.w = 2 /\ cfg.h = 2
  /\ goReturned = 1 /\ Phase = "Idle"
  /\ rootLog = << <<0, 0, 0>>, <<1, 1, 0>>, <<2, 0, 1>>, <<3, 1, 1>> >>

\* C2: a render_go call calls the registered preparation functions in the
\* order of registration, one call for each registration, and has called all
\* of them when it enters render mode and when it calls the root node.
C2_PrepOrder ==
  \A i \in 1..Len(calls) :
    /\ calls[i].fn = "render_go" =>
         /\ Len(calls[i].called) <= Len(m_pl)
         /\ calls[i].called = SubSeq(m_pl, 1, Len(calls[i].called))
         /\ calls[i].phase = "pixel" => calls[i].called = m_pl
         /\ calls[i].phase = "prep" /\ i = Len(calls) => m_render = 0
    /\ (calls[i].fn = "node" /\ calls[i].root) =>
         /\ calls[i - 1].fn = "render_go"
         /\ calls[i - 1].called = m_pl

\* The same function was registered twice and the root node is being called.
C2_Witness ==
  /\ Len(m_pl) = 2 /\ m_pl[1] = m_pl[2]
  /\ calls # <<>> /\ Top.fn = "node" /\ Top.root
  /\ calls[Len(calls) - 1].called = m_pl

C4_RenderOnly ==
  last.fn \in {"node_invoke", "render_offset", "render_X", "render_Y"} =>
    /\ last.ok => last.phase = "Rendering"
    /\ last.phase # "Rendering" =>
         /\ ~last.ok /\ err = "error"
         /\ (calls = <<>> \/ Top.fn # "node")

\* node_invoke with a node was called from a preparation function and
\* raised the error.
C4_Witness ==
  /\ last.fn = "node_invoke" /\ last.arg # NULL /\ last.phase = "Preparing"
  /\ ~last.ok /\ err = "error"
  /\ Top.fn = "prep"

\* A position query was called after render_go had returned and raised the
\* error.
C4_WitnessAfter ==
  /\ last.fn = "render_offset" /\ last.phase = "Idle" /\ last.after = 1
  /\ err = "error"

(***************************************************************************)
(* Claims about the program, checked under Spec.                           *)
(***************************************************************************)

InFrames(fns) == {i \in 1..Len(calls) : calls[i].fn \in fns}

\* C5: interpretation and rendering are two disjoint phases: the running
\* mode of the stack machine and the render mode of the render loop are
\* never both on, and while render_go, a preparation function or a node
\* function is running, vm_run has been called, is not running any more,
\* has left its stack empty, and the node that is rendered is a node that
\* the script defined.
C5_DisjointPhases ==
  /\ ~(m_run = 1 /\ m_render = 1)
  /\ m_render = 1 => m_called = 1
  /\ InFrames({"render_go", "prep", "node"}) # {} =>
       /\ m_called = 1 /\ m_run = 0
       /\ InFrames({"vm_run", "op"}) = {}
       /\ m_st.vcount = 0
       /\ calls[1].fn = "render_go"
       /\ calls[1].pNode \in 1..Len(nodes)

\* C5: a node function is running for the second pixel of a rendering, after
\* prep_external has run and returned.
C5_Witness ==
  /\ calls # <<>>
  /\ Top.fn = "node"
  /\ m_render = 1 /\ m_offs = 1
  /\ calls[1].called = <<"prep_external">>


(***************************************************************************)
(* Claims about the interpreter stack, checked under SpecVM.               *)
(***************************************************************************)

PopFns == {"vm_pop_f", "vm_pop_c", "vm_pop_s", "vm_pop_n"}

\* The typed pop that matches a push, and the type that a typed pop wants.
PopOf ==
  [fn \in PushFns |->
     CASE fn = "vm_push_f" -> "vm_pop_f"
       [] fn = "vm_push_c" -> "vm_pop_c"
       [] fn = "vm_push_s" -> "vm_pop_s"
       [] fn = "vm_push_n" -> "vm_pop_n"]

TypeOfPop ==
  [fn \in PopFns |->
     CASE fn = "vm_pop_f" -> VM_TYPE_FLOAT
       [] fn = "vm_pop_c" -> VM_TYPE_COLOR
       [] fn = "vm_pop_s" -> VM_TYPE_STRING
       [] fn = "vm_pop_n" -> VM_TYPE_NODE]

\* C6: for every Float, Color, String or Node v and every stack that the
\* interpreter can have while it runs, a push of v (below the stack-height
\* limit) completes, and the matching typed pop right after it returns v
\* and leaves the stack with the values it had before the push.
C6_PushPopRoundTrip ==
  /\ ( /\ last.fn \in PushFns
       /\ last.run = 1
       /\ Len(last.st) < cfg.stack
       /\ last.fn = "vm_push_n" => last.arg # NULL ) => last.ok
  /\ (prev.fn \in PushFns /\ last.fn = PopOf[prev.fn]) =>
       /\ last.ok
       /\ last.ret = prev.arg
       /\ StackValues = prev.st

\* C6: vm_push_s was called below the stack-height limit, into an entry that
\* had held a Float or a Node, and has ended in the invalid access of
\* variant_copy.
C6_Witness ==
  /\ last.fn = "vm_push_s" /\ last.run = 1
  /\ Len(last.st) < cfg.stack
  /\ m_st.pBank[Len(last.st) + 1].hi # 0
  /\ err = "fault"

\* C7: a typed pop, vm_pop or vm_dup raises an error when the stack is empty
\* or the innermost open group hides every entry; a typed pop raises an
\* error when the visible top has another type; the hidden entries stay as
\* they are and what a typed pop returns is the top entry above them.
C7_PopNeedsVisible ==
  last.fn \in PopFns \cup {"vm_pop", "vm_dup"} =>
    LET hid == Hidden(last.gs)
        n   == Len(last.st)
    IN  /\ n <= hid => (~last.ok /\ err = "error")
        /\ ( /\ last.fn \in PopFns
             /\ n > hid
             /\ last.st[n].vtype # TypeOfPop[last.fn] )
             => (~last.ok /\ err = "error")
        /\ \A k \in 1..n : k <= hid =>
             (k <= Len(StackValues) /\ StackValues[k] = last.st[k])
        /\ (last.ok /\ last.fn \in PopFns) =>
             (n > hid /\ last.ret = last.st[n].val
                      /\ StackValues = SubSeq(last.st, 1, n - 1))

\* vm_pop_f was called with a Float on the stack that a group hides, and
\* raised the error.
C7_Witness ==
  /\ last.fn = "vm_pop_f" /\ last.run = 1
  /\ last.st = <<[vtype |-> VM_TYPE_FLOAT, val |-> 1]>>
  /\ last.gs = <<1>>
  /\ ~last.ok /\ err = "error"

\* C8: an end-group with no open group is an error; with a group open it
\* succeeds exactly when the stack is one entry higher than it was at the
\* matching begin-group, and then the grouping stack is one shorter, the
\* stack is as it was and its top is visible in the enclosing scope.
C8_EndGroup ==
  last.fn = "handleEndGroup" =>
    /\ last.gs = <<>> => (~last.ok /\ err = "error")
    /\ last.gs # <<>> =>
         /\ last.ok <=> (Len(last.st) = last.gs[Len(last.gs)] + 1)
         /\ ~last.ok => err = "error"
         /\ last.ok => /\ GroupHeights = SubSeq(last.gs, 1, Len(last.gs) - 1)
                       /\ StackValues = last.st
                       /\ Len(StackValues) > Hidden(GroupHeights)

\* The inner one of two groups, opened above one entry, was closed with
\* one entry more on the stack.
C8_Witness ==
  /\ last.fn = "handleEndGroup" /\ last.ok
  /\ last.gs = <<1, 1>> /\ Len(last.st) = 2
  /\ GroupHeights = <<1>>

\* C9: vm_run returns a node only if at the end of input the stack holds
\* exactly one entry, that entry is visible and is a Node, and the node
\* returned is that entry; in every other case vm_run raises an error.
C9_RunResult ==
  last.fn = "vm_run" =>
    LET good == /\ Len(last.st) = 1
                /\ Hidden(last.gs) = 0
                /\ last.st[1].vtype = VM_TYPE_NODE
    IN  /\ last.ok => (good /\ last.ret = last.st[1].val /\ m_run = 0)
        /\ ~good => (~last.ok /\ err = "error")

\* vm_run has returned the node that a script left on the stack.
C9_Witness ==
  /\ last.fn = "vm_run" /\ last.ok /\ last.ret = 1
  /\ last.st = <<[vtype |-> VM_TYPE_NODE, val |-> 1]>>
  /\ calls = <<>> /\ m_run = 0 /\ err = "none"

(***************************************************************************)
(* Claims about the namespace, checked under SpecNames.                    *)
(***************************************************************************)

\* The part of C10 that is about the namespace: once a name has been
\* declared as a constant, the namespace keeps the value given at the
\* declaration, every assign to the name raises an error, and every read of
\* the name that completes pushes that value.
C10_ConstantKeeps ==
  /\ \A name \in DOMAIN declared :
       /\ rfdict_has(m_ns_dict, name)
       /\ Value(heap, m_ns.pBank[m_ns_dict[name] + 1]) = declared[name]
  /\ (last.fn = "handleAssign" /\ last.arg \in DOMAIN declared) =>
       (~last.ok /\ err = "error")
  /\ (last.fn = "handleGet" /\ last.ok /\ last.arg \in DOMAIN declared) =>
       StackValues[Len(StackValues)] = declared[last.arg]

\* C10: once a name has been declared as a constant, every assign to the
\* name raises an error, and every read of the name (with room for one more
\* entry on the stack) completes and pushes the value given at the
\* declaration.
C10_ConstantReads ==
  /\ (last.fn = "handleAssign" /\ last.arg \in DOMAIN declared) =>
       (~last.ok /\ err = "error")
  /\ ( /\ last.fn = "handleGet"
       /\ last.arg \in DOMAIN declared
       /\ Len(last.st) < cfg.stack ) =>
       /\ last.ok
       /\ StackValues[Len(StackValues)] = declared[last.arg]

\* C10: a read of a constant that holds a string, with room on the stack,
\* has ended in the invalid access of variant_copy.
C10_Witness ==
  /\ last.fn = "handleGet" /\ last.arg \in DOMAIN declared
  /\ declared[last.arg].vtype = VM_TYPE_STRING
  /\ Len(last.st) < cfg.stack
  /\ err = "fault"

\* C11: a declare of a name that is already declared raises an error,
\* whether it declares a variable or a constant and whichever of the two the
\* name was declared as, and a name that is mapped to an index of the
\* namespace stays mapped to that index.
C11_Redeclare ==
  [][ /\ \A name \in DOMAIN m_ns_dict :
          /\ name \in DOMAIN m_ns_dict'
          /\ m_ns_dict'[name] = m_ns_dict[name]
      /\ ( /\ last' # last
           /\ last'.fn = "handleDeclare"
           /\ last'.arg \in DOMAIN m_ns_dict ) =>
           (~last'.ok /\ err' = "error") ]_vars

\* C11: a declare of a name that is already declared as a constant, with a
\* visible value on the stack and room in the namespace, has raised the
\* error.
C11_Witness ==
  /\ last.fn = "handleDeclare" /\ ~last.ok
  /\ last.arg \in DOMAIN declared
  /\ Len(last.st) > Hidden(last.gs)
  /\ m_ns.vcount < m_ns.vmax
  /\ err = "error"

\* The part of C12 that is about the flags: the flag bit of a declared
\* name is set exactly when the name was declared as a constant, and an
\* assign to a name declared as a variable, with a visible value, never
\* raises an error.
C12_FlagIffConstant ==
  /\ \A name \in DOMAIN m_ns_dict :
       LET i == m_ns_dict[name]
       IN  BitIsSet(iblock_get(m_ns_flag, i \div 32), i % 32)
             <=> name \in DOMAIN declared
  /\ ( /\ last.fn = "handleAssign"
       /\ last.arg \in DOMAIN m_ns_dict \ DOMAIN declared
       /\ Len(last.st) > Hidden(last.gs) ) => err # "error"

\* C12: the flag bit of a declared name is set exactly when the name was
\* declared as a constant, and an assign to a name declared as a variable,
\* with a visible value, completes, whatever other names are constants.
C12_VariableAssigns ==
  /\ \A name \in DOMAIN m_ns_dict :
       LET i == m_ns_dict[name]
       IN  BitIsSet(iblock_get(m_ns_flag, i \div 32), i % 32)
             <=> name \in DOMAIN declared
  /\ ( /\ last.fn = "handleAssign"
       /\ last.arg \in DOMAIN m_ns_dict \ DOMAIN declared
       /\ Len(last.st) > Hidden(last.gs) ) => last.ok

\* C12: an assign of a string to a variable that holds a Float, with a
\* constant declared in the same flag word, has ended in the invalid access
\* of variant_copy.
C12_Witness ==
  /\ last.fn = "handleAssign"
  /\ last.arg \in DOMAIN m_ns_dict \ DOMAIN declared
  /\ DOMAIN declared # {}
  /\ Len(last.st) > Hidden(last.gs)
  /\ last.st[Len(last.st)].vtype = VM_TYPE_STRING
  /\ m_ns.pBank[m_ns_dict[last.arg] + 1].vtype = VM_TYPE_FLOAT
  /\ err = "fault"

\* The value stored in each declared name.
NsValues ==
  [name \in DOMAIN m_ns_dict |->
     Value(heap, m_ns.pBank[m_ns_dict[name] + 1])]

\* The value of a name changes only in a declare or an assign of that name
\* that completes, and becomes the value that was on top of the stack.
StoredByStore ==
  \A name \in DOMAIN m_ns_dict' :
    (name \notin DOMAIN m_ns_dict \/ NsValues'[name] # NsValues[name]) =>
      /\ last'.fn \in {"handleDeclare", "handleAssign"}
      /\ last'.arg = name
      /\ last'.ok
      /\ NsValues'[name] = StackValues[Len(StackValues)]

\* The part of C13 that is about the value: a read of a declared name that
\* completes pushes the value stored in the name and leaves the stack below
\* it and every stored value as they were, and a stored value is the one of
\* the declare or of the last assign of the name that completed.
C13_ReadCopiesStored ==
  [][ /\ StoredByStore
      /\ ( /\ last' # last
           /\ last'.fn = "handleGet"
           /\ last'.ok ) =>
           /\ last'.arg \in DOMAIN m_ns_dict
           /\ StackValues' = Append(StackValues, NsValues[last'.arg])
           /\ NsValues' = NsValues ]_vars

\* C13: a read of a declared name (with room for one more entry on the
\* stack) completes, pushes the value stored in the name by its declare or
\* by its last assign that completed, and leaves every stored value as it
\* was.
C13_ReadCopies ==
  [][ /\ StoredByStore
      /\ ( /\ last' # last
           /\ last'.fn = "handleGet"
           /\ last'.arg \in DOMAIN m_ns_dict
           /\ m_st.vcount < cfg.stack ) =>
           /\ last'.ok
           /\ StackValues' = Append(StackValues, NsValues[last'.arg])
           /\ NsValues' = NsValues ]_vars

\* C13: a read of a variable that holds a string, with room on the stack,
\* has ended in the invalid access of variant_copy.
C13_Witness ==
  /\ last.fn = "handleGet"
  /\ last.arg \in DOMAIN m_ns_dict \ DOMAIN declared
  /\ NsValues[last.arg].vtype = VM_TYPE_STRING
  /\ Len(last.st) < cfg.stack
  /\ err = "fault"

\* C14: an assign to a name that is not declared raises an error, and a
\* read of a name that is not declared raises an error.
C14_Undeclared ==
  ( /\ last.fn \in {"handleAssign", "handleGet"}
    /\ last.arg \notin DOMAIN m_ns_dict ) =>
    (~last.ok /\ err = "error")

\* C14: a read of a valid name that is not declared, while another name is
\* declared and the stack has room, has raised the error.
C14_Witness ==
  /\ last.fn = "handleGet"
  /\ validName(last.arg)
  /\ last.arg \notin DOMAIN m_ns_dict
  /\ DOMAIN m_ns_dict # {}
  /\ Len(last.st) < cfg.stack
  /\ err = "error"

(***************************************************************************)
(* Claims about the operation table, checked under SpecOps.                *)
(***************************************************************************)

\* C15: once vm_run has been called, while it runs and after it has
\* returned, every vm_register call raises an error, and the operation
\* table and its dictionary of names stay as they were when vm_run was
\* called.
C15_RegisterBeforeRun ==
  [][ /\ m_called = 1 =>
          (m_ops' = m_ops /\ m_ops_dict' = m_ops_dict)
      /\ ( /\ last' # last
           /\ last'.fn = "vm_register"
           /\ m_called = 1 ) =>
           (~last'.ok /\ err' = "error") ]_vars

\* C15: an operation function that vm_run called has called vm_register
\* with a function and a valid name that is not registered, and the call
\* has raised the error.
C15_Witness ==
  /\ calls # <<>>
  /\ Top.fn = "op"
  /\ last.fn = "vm_register" /\ ~last.ok /\ last.run = 1
  /\ validName(last.arg)
  /\ last.arg \notin DOMAIN m_ops_dict
  /\ m_ops.ocount < m_ops.omax
  /\ err = "error"

\* C15: vm_register was called after vm_run had returned its node, and has
\* raised the error.
C15_WitnessAfter ==
  /\ calls = <<>>
  /\ m_called = 1 /\ m_run = 0
  /\ last.fn = "vm_register" /\ ~last.ok /\ last.run = 0
  /\ validName(last.arg)
  /\ last.arg \notin DOMAIN m_ops_dict
  /\ err = "error"

\* C16: a vm_register call raises an error when the name is registered,
\* when validName refuses the name, and when MAX_OPERATION_COUNT operations
\* are registered; the table grows only by a vm_register that completes,
\* which gives a name that was not registered the index of the new entry,
\* so that there are as many names as entries.
C16_RegisterFails ==
  [][ /\ ( /\ last' # last
           /\ last'.fn = "vm_register"
           /\ \/ rfdict_has(m_ops_dict, last'.arg)
              \/ ~validName(last'.arg)
              \/ m_ops.ocount >= MAX_OPERATION_COUNT ) =>
           (~last'.ok /\ err' = "error")
      /\ (m_ops'.ocount # m_ops.ocount \/ m_ops_dict' # m_ops_dict) =>
           /\ last'.fn = "vm_register" /\ last'.ok
           /\ ~rfdict_has(m_ops_dict, last'.arg)
           /\ m_ops'.ocount = m_ops.ocount + 1
           /\ m_ops_dict' = rfdict_insert(m_ops_dict, last'.arg, m_ops.ocount)
           /\ Cardinality(DOMAIN m_ops_dict') = m_ops'.ocount ]_vars

\* C16: vm_register was called before vm_run with a function and a valid
\* name that is not registered while MAX_OPERATION_COUNT operations were
\* registered, and has raised the error.
C16_Witness ==
  /\ last.fn = "vm_register" /\ ~last.ok
  /\ m_called = 0
  /\ validName(last.arg)
  /\ ~rfdict_has(m_ops_dict, last.arg)
  /\ m_ops.ocount = MAX_OPERATION_COUNT
  /\ Cardinality(DOMAIN m_ops_dict) = MAX_OPERATION_COUNT
  /\ err = "error"

\* C16: the table has grown beyond its first capacity, and vm_register was
\* called with a name that is registered and has raised the error.
C16_WitnessDuplicate ==
  /\ last.fn = "vm_register" /\ ~last.ok
  /\ m_called = 0
  /\ rfdict_has(m_ops_dict, last.arg)
  /\ m_ops.ocount = OBLOCK_INITIAL + 1
  /\ m_ops.ocap = 2 * OBLOCK_INITIAL
  /\ err = "error"

(***************************************************************************)
(* Claims about the callers of the stack functions, checked under          *)
(* SpecClients.                                                            *)
(***************************************************************************)

\* The stack functions of vm.h.
StackFns ==
  {"vm_type", "vm_pop_f", "vm_pop_c", "vm_pop_s", "vm_pop_n",
   "vm_push_f", "vm_push_c", "vm_push_s", "vm_push_n", "vm_dup", "vm_pop"}

\* C17: a stack function completes only when it is called while vm_run is
\* running its loop; called while vm_run is not running, before vm_run or
\* after its return, it raises an error.  m_run is set exactly while a
\* vm_run frame is on the call stack.
C17_OnlyWhileRunning ==
  /\ (m_run = 1) <=> (InFrames({"vm_run"}) # {})
  /\ last.fn \in StackFns =>
       /\ last.ok => (last.run = 1 /\ InFrames({"vm_run"}) # {})
       /\ last.run = 0 => (~last.ok /\ err = "error")

\* C17: a preparation function has called a stack function after vm_run
\* returned, and the error was raised.
C17_Witness ==
  /\ last.fn \in StackFns /\ ~last.ok /\ last.run = 0
  /\ m_called = 1
  /\ calls # <<>> /\ Top.fn = "prep"
  /\ err = "error"

\* C17: a node function has called a stack function after vm_run returned,
\* and the error was raised.
C17_WitnessNode ==
  /\ last.fn \in StackFns /\ ~last.ok /\ last.run = 0
  /\ m_called = 1
  /\ calls # <<>> /\ Top.fn = "node"
  /\ err = "error"

\* C17: each stack function was called before vm_run and raised the error.
C17_WitnessBefore ==
  /\ last.fn \in StackFns /\ ~last.ok /\ last.run = 0
  /\ m_called = 0
  /\ err = "error"

\* C17: an operation function has called a stack function, which completed.
C17_WitnessRunning ==
  /\ last.fn \in StackFns /\ last.ok /\ last.run = 1
  /\ calls # <<>> /\ Top.fn = "op"

(***************************************************************************)
(* Claims about the growable arrays, checked under SpecGrow.               *)
(***************************************************************************)

\* C18: in every state the interpreter stack, the grouping stack, the
\* namespace array, the flag array of the namespace and the operation
\* table each hold no more entries than their capacity, which is the
\* length of their bank and is no more than their maximum; the maxima are
\* stack-height, MAX_GROUP_DEPTH, name-limit, one flag word for 32 names,
\* and MAX_OPERATION_COUNT.
C18_Capacity ==
  /\ 0 <= m_st.vcount /\ m_st.vcount <= m_st.vcap /\ m_st.vcap <= m_st.vmax
  /\ Len(m_st.pBank) = m_st.vcap
  /\ 0 <= m_gs.icount /\ m_gs.icount <= m_gs.icap /\ m_gs.icap <= m_gs.imax
  /\ Len(m_gs.pBank) = m_gs.icap
  /\ 0 <= m_ns.vcount /\ m_ns.vcount <= m_ns.vcap /\ m_ns.vcap <= m_ns.vmax
  /\ Len(m_ns.pBank) = m_ns.vcap
  /\ 0 <= m_ns_flag.icount /\ m_ns_flag.icount <= m_ns_flag.icap
  /\ m_ns_flag.icap <= m_ns_flag.imax
  /\ Len(m_ns_flag.pBank) = m_ns_flag.icap
  /\ 0 <= m_ops.ocount /\ m_ops.ocount <= m_ops.ocap
  /\ m_ops.ocap <= m_ops.omax
  /\ Len(m_ops.pBank) = m_ops.ocap
  /\ m_ops # NullOBlock => m_ops.omax = MAX_OPERATION_COUNT
  /\ m_run = 1 =>
       /\ m_st.vmax = cfg.stack
       /\ m_gs.imax = MAX_GROUP_DEPTH
       /\ m_ns.vmax = cfg.names
       /\ m_ns_flag.imax = FlagWords(cfg.names)
       /\ m_ns_flag.icount = FlagWords(m_ns.vcount)

\* C18: a declaration has filled the namespace array to a name limit that
\* the doubling does not meet, with a flag array that has grown to its
\* maximum, after the operation table has grown.
C18_Witness ==
  /\ last.fn = "handleDeclare" /\ last.ok
  /\ m_ns.vmax = 32 * IBLOCK_INITIAL + 33
  /\ m_ns.vcount = m_ns.vmax /\ m_ns.vcap = m_ns.vmax
  /\ m_ns_flag.imax > IBLOCK_INITIAL
  /\ m_ns_flag.icount = m_ns_flag.imax /\ m_ns_flag.icap = m_ns_flag.imax
  /\ m_ops.ocount = OBLOCK_INITIAL + 1 /\ m_ops.ocap = 2 * OBLOCK_INITIAL

\* C18: a push has filled the interpreter stack to a stack height that the
\* doubling does not meet.
C18_WitnessStack ==
  /\ last.fn = "handleNumeric" /\ last.ok
  /\ m_st.vmax = 2 * VBLOCK_INITIAL + 1
  /\ m_st.vcount = m_st.vmax /\ m_st.vcap = m_st.vmax

\* C18: MAX_GROUP_DEPTH groups are open and one more was refused.
C18_WitnessGroups ==
  /\ last.fn = "handlBeginGroup" /\ ~last.ok
  /\ m_gs.icount = MAX_GROUP_DEPTH /\ m_gs.icap = MAX_GROUP_DEPTH

\* C18: the grouping stack has grown beyond its initial capacity.
C18_WitnessGroupsGrown ==
  /\ last.fn = "handlBeginGroup" /\ last.ok
  /\ m_gs.icount = IBLOCK_INITIAL + 1 /\ m_gs.icap = 2 * IBLOCK_INITIAL

\* C18: MAX_OPERATION_COUNT operations are registered.
C18_WitnessTable ==
  /\ last.fn = "vm_register" /\ last.ok
  /\ m_ops.ocount = MAX_OPERATION_COUNT /\ m_ops.ocap = MAX_OPERATION_COUNT

(***************************************************************************)
(* Claims about pushing, checked under SpecPush.                           *)
(***************************************************************************)

\* The functions that push: a literal, a read, an array marker, the push
\* functions for operation functions, and vm_dup.
Pushes ==
  {"handleString", "handleNumeric", "handleArray", "handleGet",
   "vm_push_f", "vm_push_c", "vm_push_s", "vm_push_n", "vm_dup"}

\* The last call was a push with arguments that the function accepts, made
\* while vm_run was running (vm_dup: with a visible entry to duplicate).
PushCalled ==
  /\ last.fn \in Pushes
  /\ last.run = 1
  /\ last.fn = "vm_dup" => Len(last.st) > Hidden(last.gs)

\* The stack is the stack before the last call with one more entry on top.
PushedOne ==
  /\ Len(StackValues) = Len(last.st) + 1
  /\ SubSeq(StackValues, 1, Len(last.st)) = last.st
  /\ StackValues[Len(StackValues)].vtype # VM_TYPE_UNDEF
  /\ last.fn = "vm_dup" =>
       StackValues[Len(StackValues)] = last.st[Len(last.st)]
  /\ GroupHeights = last.gs

\* C19 (what holds): a push at the stack-height limit raises an error, a
\* push below the limit completes with one more entry on the entries that
\* were there, or the process dies in it; a push that fails leaves the
\* stack as it was.
C19_PushOrFault ==
  PushCalled =>
    /\ IF Len(last.st) < cfg.stack
         THEN \/ last.ok /\ err = "none" /\ PushedOne
              \/ ~last.ok /\ err = "fault"
         ELSE ~last.ok /\ err = "error"
    /\ ~last.ok => (StackValues = last.st /\ GroupHeights = last.gs)

\* C19: a push completes with one more entry on the entries that were
\* there when the total height of the stack is below stack-height, and
\* raises an error when the height equals stack-height.
C19_PushBelowLimit ==
  PushCalled =>
    IF Len(last.st) < cfg.stack
      THEN last.ok /\ err = "none" /\ PushedOne
      ELSE ~last.ok /\ err = "error" /\ StackValues = last.st

\* C19: a push of a string below the limit, into an entry of the stack that
\* held a number before, in which the process has died.
C19_Witness ==
  /\ PushCalled
  /\ Len(last.st) < cfg.stack
  /\ ~last.ok /\ err = "fault"

\* C19: a push at the limit, with entries that an open group hides, has
\* raised the error.
C19_WitnessOverflow ==
  /\ PushCalled
  /\ Len(last.st) = cfg.stack
  /\ Hidden(last.gs) > 0
  /\ ~last.ok /\ err = "error"

(***************************************************************************)
(* Claims about the nodes, checked under SpecNodes.                        *)
(***************************************************************************)

\* C20: node_define raises an error for a depth below 1 and for a depth
\* above graph-depth, a node_define that completes stores the depth it was
\* given, and every node has a depth from 1 to graph-depth.
C20_NodeDepth ==
  /\ \A pn \in 1..Len(nodes) :
       1 <= nodes[pn].depth /\ nodes[pn].depth <= cfg.depth
  /\ last.fn = "node_define" =>
       /\ (last.arg < 1 \/ last.arg > cfg.depth) =>
            (~last.ok /\ err = "error")
       /\ last.ok =>
            (last.ret = Len(nodes) /\ nodes[last.ret].depth = last.arg)

\* C20: with a node as deep as a graph-depth above 1, node_define was
\* called with a depth above graph-depth and has raised the error.
C20_Witness ==
  /\ last.fn = "node_define" /\ ~last.ok
  /\ last.arg > cfg.depth
  /\ cfg.depth > 1
  /\ \E pn \in 1..Len(nodes) : nodes[pn].depth = cfg.depth
  /\ err = "error"

\* C20: node_define was called with depth 0 and has raised the error.
C20_WitnessLow ==
  /\ last.fn = "node_define" /\ ~last.ok
  /\ last.arg = 0
  /\ err = "error"

\* C21 (what holds): node_depth raises an error for NULL, and for a node it
\* returns without an error and changes no node.
C21_DepthCall ==
  last.fn = "node_depth" =>
    IF last.arg = NULL THEN ~last.ok /\ err = "error"
    ELSE last.ok /\ err = "none"

\* C21: node_depth returns the depth that node_define was given when it
\* made the node.
C21_DepthReturned ==
  (last.fn = "node_depth" /\ last.ok) =>
    last.ret = nodes[last.arg].depth

\* C21: node_depth has returned, for a node that node_define made with a
\* depth, a value that is not that depth.
C21_Witness ==
  /\ last.fn = "node_depth" /\ last.ok
  /\ last.arg \in 1..Len(nodes)
  /\ nodes[last.arg].depth \in 1..cfg.depth
  /\ last.ret # nodes[last.arg].depth

(***************************************************************************)
(* Claims about select nodes, checked under SpecSelect.                    *)
(***************************************************************************)

\* The nodes that a node refers to: the index node, the default node and
\* the palette nodes of a select node.
Kids(pn) ==
  IF nodes[pn].fp = "node_select"
    THEN LET pd == nodes[pn].pInstance
         IN  {pd.nIndex, pd.nDefault}
               \cup {pd.pal.pData[k].val : k \in 1..pd.pal.count}
    ELSE {}

\* The greatest depth among the nodes of a set.
MaxDepthOf(S) ==
  CHOOSE d \in {nodes[k].depth : k \in S} :
    \A k \in S : nodes[k].depth <= d

\* C22 (what holds): a node refers to nodes that were made before it, and
\* a select node has a depth from 1 to graph-depth.
C22_KidsEarlier ==
  \A pn \in 1..Len(nodes) :
    /\ \A k \in Kids(pn) : k \in 1..(pn - 1)
    /\ nodes[pn].depth \in 1..cfg.depth

\* C22: the depth of a select node is one more than the greatest depth of
\* its index node, its default node and its palette nodes, and so greater
\* than the depth of each of them.
C22_DepthAboveKids ==
  \A pn \in 1..Len(nodes) :
    nodes[pn].fp = "node_select" =>
      /\ nodes[pn].depth = 1 + MaxDepthOf(Kids(pn))
      /\ \A k \in Kids(pn) : nodes[pn].depth > nodes[k].depth

\* C22: select_finish has made a select node whose depth is not greater
\* than the depth of a node it refers to.
C22_Witness ==
  /\ last.fn = "op_select_finish" /\ last.ok
  /\ nodes[Len(nodes)].fp = "node_select"
  /\ \E k \in Kids(Len(nodes)) : nodes[Len(nodes)].depth <= nodes[k].depth

\* The node_invoke calls that are active at the same time.
ActiveInvokes == Cardinality(InFrames({"node"}))

\* C23 (what holds): the active node_invoke calls are nested along a chain
\* of distinct nodes of the graph, each made before the one that invoked
\* it, so there are never more of them than there are nodes.
C23_NestedInGraph ==
  /\ ActiveInvokes <= Len(nodes)
  /\ \A i, j \in InFrames({"node"}) :
        i < j => calls[j].pNode < calls[i].pNode

\* C23: while rendering, the number of node_invoke calls active at the
\* same time is at most the configured graph depth.
C23_InvokesWithinDepth == ActiveInvokes <= cfg.depth

\* C23: rendering has invoked a select node that has invoked a node it
\* refers to, with a graph depth of 1.
C23_Witness ==
  /\ cfg.depth = 1
  /\ InFrames({"render_go"}) # {}
  /\ ActiveInvokes = 2
  /\ nodes[calls[Len(calls) - 1].pNode].fp = "node_select"

(***************************************************************************)
(* Claims about errors, checked under Spec                                 *)
(***************************************************************************)

\* vm_run is on the call stack: the script is being interpreted.
Interpreting == InFrames({"vm_run"}) # {}

\* C24: every error is fatal.  A step is taken only while no error has
\* been raised, a call that fails raises the error that ends the run, and
\* when the error is raised while the script is interpreted no rendering
\* has started: no preparation callback has run and no pixel was rendered.
C24_ErrorsFatal ==
  [][/\ err = "none"
     /\ (last' # last /\ last'.fn # "none" /\ ~last'.ok) => err' # "none"
     /\ (err' # "none" /\ Interpreting) =>
          /\ goStarted' = 0 /\ goReturned' = 0
          /\ InFrames({"render_go", "prep", "node"})' = {}
          /\ rootLog' = <<>> /\ raster' = <<>>]_vars

\* C24: an operation has raised an error while the script was interpreted.
C24_Witness ==
  /\ err = "error"
  /\ Interpreting
  /\ InFrames({"op"}) # {}
  /\ ~last.ok

\* C24: an error was raised while rendering, after pixels were stored.
C24_WitnessRender ==
  /\ err = "error"
  /\ InFrames({"render_go"}) # {}
  /\ raster # <<>>

(***************************************************************************)
(* Claims about the evaluation of select nodes, checked under SpecSelect   *)
(***************************************************************************)

\* The innermost frame is an invocation of a select node.
SelectRuns ==
  /\ calls # <<>>
  /\ Top.fn = "node"
  /\ nodes[Top.pNode].fp = "node_select"

\* The records of the palette of a select node that have a given key.
Hits(pn, col) ==
  LET pal == nodes[pn].pInstance.pal
  IN  {k \in 1..pal.count : pal.pData[k].key = col}

\* The node that a select node is to pass the call to for an index colour.
Selected(pn, col, n) ==
  LET pd == nodes[pn].pInstance
  IN  /\ \A k \in Hits(pn, col) : n = pd.pal.pData[k].val
      /\ Hits(pn, col) = {} => n = pd.nDefault

\* C25: an invocation of a select node first invokes its index node, once;
\* with the colour that the index node returned it then invokes the palette
\* node whose key is that colour, or the default node when no key is, and
\* returns what that invocation returned.
C25_SelectEvaluates ==
  [][SelectRuns =>
       LET f  == Top
           pd == nodes[Top.pNode].pInstance
       IN  /\ f.pc = "start" => f.kids = <<>>
           /\ f.pc = "index" =>
                 /\ f.kids = <<pd.nIndex>>
                 /\ last.fn = "node_invoke" /\ last.arg = pd.nIndex
                 /\ err' = "none" => calls'[Len(calls)].icol = last.ret
           /\ f.pc = "value" =>
                 /\ Len(f.kids) = 2 /\ f.kids[1] = pd.nIndex
                 /\ Selected(f.pNode, f.icol, f.kids[2])
                 /\ last.fn = "node_invoke" /\ last.arg = f.kids[2]
                 /\ calls' = Pop
                 /\ last'.fn = "node_invoke" /\ last'.arg = f.pNode
                 /\ last'.ret = last.ret]_vars

\* C25: a select node has invoked the palette node of the index colour,
\* which has returned.
C25_Witness ==
  /\ SelectRuns /\ Top.pc = "value"
  /\ Hits(Top.pNode, Top.icol) # {}
  /\ Top.kids[2] # nodes[Top.pNode].pInstance.nDefault
  /\ last.fn = "node_invoke" /\ last.arg = Top.kids[2]

\* C25: a select node with a palette has invoked its default node, the
\* index colour being none of the keys.
C25_WitnessDefault ==
  /\ SelectRuns /\ Top.pc = "value"
  /\ nodes[Top.pNode].pInstance.pal.count > 0
  /\ Hits(Top.pNode, Top.icol) = {}
  /\ last.fn = "node_invoke"
  /\ last.arg = nodes[Top.pNode].pInstance.nDefault

\* C25: a select node has looked its index colour up in a palette of two
\* records and found it in the second.
C25_WitnessSecond ==
  /\ SelectRuns /\ Top.pc = "value"
  /\ nodes[Top.pNode].pInstance.pal.count = 2
  /\ Hits(Top.pNode, Top.icol) = {2}

(***************************************************************************)
(* Claims about the accumulator, checked under SpecSelect                  *)
(***************************************************************************)

\* An operation function is the innermost frame.
OpRuns(fp) == calls # <<>> /\ Top.fn = "op" /\ Top.fp = fp

\* C26: the accumulator follows select_new, select_map ..., select_finish.
\* select_new is an error unless the accumulator is empty, and otherwise
\* leaves a definition with an empty palette; select_map and select_finish
\* are errors unless the accumulator holds a definition; select_map adds
\* one record to it; select_finish leaves the accumulator empty, makes one
\* select node of the definition and pushes that one node.  Nothing else
\* changes the accumulator.
C26_Accumulator ==
  [][/\ OpRuns("op_select_new") =>
          /\ m_ax # NullSelect => err' = "error"
          /\ err' = "none" =>
                /\ m_ax = NullSelect /\ m_ax' # NullSelect
                /\ m_ax'.pal.count = 0
     /\ OpRuns("op_select_map") =>
          /\ m_ax = NullSelect => err' = "error"
          /\ err' = "none" =>
                /\ m_ax'.nIndex = m_ax.nIndex
                /\ m_ax'.nDefault = m_ax.nDefault
                /\ m_ax'.pal.count = m_ax.pal.count + 1
     /\ OpRuns("op_select_finish") =>
          /\ m_ax = NullSelect => err' = "error"
          /\ err' = "none" =>
                /\ m_ax # NullSelect /\ m_ax' = NullSelect
                /\ Len(nodes') = Len(nodes) + 1
                /\ nodes'[Len(nodes')].fp = "node_select"
                /\ nodes'[Len(nodes')].pInstance.nIndex = m_ax.nIndex
                /\ nodes'[Len(nodes')].pInstance.nDefault = m_ax.nDefault
                /\ m_st'.vcount = m_st.vcount + 1
                /\ m_st'.pBank[m_st'.vcount] = variant_setNode(Len(nodes'))
                /\ \A i \in 1..m_st.vcount : m_st'.pBank[i] = m_st.pBank[i]
     /\ m_ax' # m_ax =>
          \/ OpRuns("op_select_new")
          \/ OpRuns("op_select_map")
          \/ OpRuns("op_select_finish")]_vars

\* C26: select_finish has pushed the node of a definition with a record.
C26_Witness ==
  /\ last.fn = "op_select_finish" /\ last.ok
  /\ m_ax = NullSelect
  /\ nodes[Len(nodes)].pInstance.pal.count > 0
  /\ m_st.pBank[m_st.vcount] = variant_setNode(Len(nodes))

\* C26: select_new has raised an error, the accumulator not being empty.
C26_WitnessNew ==
  /\ err = "error" /\ OpRuns("op_select_new")
  /\ m_ax # NullSelect
  /\ m_st.vcount = 2
  /\ \A i \in 1..2 : m_st.pBank[i].vtype = VM_TYPE_NODE

\* C26: select_map has raised an error, the accumulator being empty.
C26_WitnessMap ==
  /\ err = "error" /\ OpRuns("op_select_map")
  /\ m_ax = NullSelect
  /\ m_st.vcount = 2
  /\ m_st.pBank[1].vtype = VM_TYPE_COLOR
  /\ m_st.pBank[2].vtype = VM_TYPE_NODE

\* C26: select_finish has raised an error, the accumulator being empty.
C26_WitnessFinish ==
  /\ err = "error" /\ OpRuns("op_select_finish")
  /\ m_ax = NullSelect

\* A palette has two records with the same key.
RepeatedKey(pal) ==
  \E i, j \in 1..pal.count :
    i # j /\ pal.pData[i].key = pal.pData[j].key

\* C27: a select_finish on a definition in which a key was mapped more than
\* once raises an error, and no select node has a palette with a repeated
\* key.
C27_KeysDistinct ==
  [][/\ (OpRuns("op_select_finish") /\ m_ax # NullSelect
           /\ RepeatedKey(m_ax.pal)) =>
          /\ err' = "error"
          /\ nodes' = nodes
     /\ \A pn \in 1..Len(nodes') :
          nodes'[pn].fp = "node_select" =>
            ~RepeatedKey(nodes'[pn].pInstance.pal)]_vars

\* C27: select_finish has raised an error on a definition in which the
\* same key was mapped twice.
C27_Witness ==
  /\ err = "error" /\ OpRuns("op_select_finish")
  /\ m_ax # NullSelect
  /\ m_ax.pal.count = 2
  /\ RepeatedKey(m_ax.pal)

\* C27: a select node was made of a definition with two different keys,
\* given in descending order.
C27_WitnessDistinct ==
  /\ last.fn = "op_select_finish" /\ last.ok
  /\ nodes[Len(nodes)].pInstance.pal.count = 2
  /\ nodes[Len(nodes)].pInstance.pal.pData[1].val
       > nodes[Len(nodes)].pInstance.pal.pData[2].val

(***************************************************************************)
(* Claims about string objects                                             *)
(***************************************************************************)

\* The entries of a VBLOCK that hold a reference to a string object.
BankRefs(pb, p) ==
  {i \in 1..Len(pb.pBank) :
     pb.pBank[i].vtype = VM_TYPE_STRING /\ pb.pBank[i].val = p}

\* The records of external nodes that hold a reference to a string object.
RecordRefs(p) ==
  {k \in 1..Len(nodes) :
     nodes[k].fp = "node_external" /\ nodes[k].pInstance.iPath = p}

\* The number of ISTR structures that refer to a string object: entries of
\* the interpreter stack and of the namespace, the structure of a caller,
\* and the records of the plug-ins.
References(p) ==
  Cardinality(BankRefs(m_st, p)) + Cardinality(BankRefs(m_ns, p))
    + (IF ps = p THEN 1 ELSE 0) + Cardinality(RecordRefs(p))

\* C28: the reference count of a string object is the number of ISTR
\* structures that refer to it, and a block to which nothing refers is
\* free: no object is freed while a reference remains, and none is kept
\* without one.
C28_RefCount ==
  \A p \in DOMAIN heap :
    /\ heap[p].refcount = References(p)
    /\ References(p) = 0 <=> heap[p] = FreeData

\* C28: a string object is shared by an entry of the interpreter stack and
\* an entry of the namespace, and counts two references.
C28_Witness ==
  \E p \in DOMAIN heap :
    /\ heap[p].refcount = 2
    /\ BankRefs(m_st, p) # {} /\ BankRefs(m_ns, p) # {}

\* C28: a string was pushed and popped again, and no block is allocated.
C28_WitnessFreed ==
  /\ prev # NoCall /\ prev.fn = "vm_push_s"
  /\ last.fn \in {"vm_pop_s", "vm_pop"} /\ last.ok
  /\ \A p \in DOMAIN heap : heap[p] = FreeData

(***************************************************************************)
(* Claims about istr_concat, checked under SpecConcat                      *)
(***************************************************************************)

\* The caller calls istr_concat with two strings that are not empty.
ConcatOfTwo(r, a, b) ==
  /\ calls # <<>> /\ Top.fn = "client"
  /\ Top.str[a] # NULL /\ Top.str[b] # NULL
  /\ last' # last /\ last'.fn = "istr_concat" /\ last'.arg = <<r, a, b>>

\* C29 (what holds): istr_concat of two strings that are not empty raises
\* an error exactly when twice the recorded length of B is more than the
\* maximum; otherwise the new object has one reference, twice the recorded
\* length of B as its recorded length and room for that many characters,
\* and the characters of A followed by those of B were written, unless the
\* process died of a write past the allocation.
C29_ConcatTwiceB ==
  [][\A r \in Locals, a \in Locals, b \in Locals :
       ConcatOfTwo(r, a, b) =>
         LET A == heap[Top.str[a]]
             B == heap[Top.str[b]]
         IN  /\ err' = "error" <=> 2 * B.slen > MAX_DATA_LEN
             /\ err' = "none" =>
                   LET d == heap'[calls'[Len(calls)].str[r]]
                   IN  /\ d.refcount = 1
                       /\ d.slen = 2 * B.slen
                       /\ Room(d) >= d.slen + 1
                       /\ d.s = A.s \o B.s
             /\ err' = "fault" => Len(A.s) + Len(B.s) > 2 * B.slen + 2]_vars

\* C29: istr_concat of two strings A and B that are not empty raises an
\* error exactly when len(A) + len(B) is more than the maximum string
\* length; otherwise it makes a string object whose recorded length is
\* len(A) + len(B) and whose allocation holds the len(A) + len(B)
\* characters and the nul.
C29_ConcatLength ==
  [][\A r \in Locals, a \in Locals, b \in Locals :
       ConcatOfTwo(r, a, b) =>
         LET A == heap[Top.str[a]]
             B == heap[Top.str[b]]
         IN  /\ err' = "error" <=> Len(A.s) + Len(B.s) > MAX_DATA_LEN
             /\ err' # "error" =>
                   /\ err' = "none"
                   /\ LET d == heap'[calls'[Len(calls)].str[r]]
                      IN  /\ d.slen = Len(A.s) + Len(B.s)
                          /\ Room(d) >= Len(A.s) + Len(B.s) + 1
                          /\ d.s = A.s \o B.s]_vars

\* C29: istr_concat has returned a string object for a string of the
\* maximum length followed by one character: the recorded length is 2 and
\* the characters do not fit the allocation.
C29_Witness ==
  /\ last.fn = "istr_concat" /\ last.ok
  /\ last.ret # NULL
  /\ Len(heap[last.ret].s) = MAX_DATA_LEN + 1
  /\ heap[last.ret].slen = 2
  /\ Room(heap[last.ret]) < Len(heap[last.ret].s) + 1

\* C29: istr_concat has raised an error for a string of one character
\* followed by one of more than half the maximum length.
C29_WitnessError ==
  /\ err = "error" /\ last.fn = "istr_concat"
  /\ Len(heap[Top.str[last.arg[2]]].s) = 1
  /\ Len(heap[Top.str[last.arg[3]]].s) = (MAX_DATA_LEN + 1) \div 2

\* C29: istr_concat of two strings of the same length has made an object
\* with the right length.
C29_WitnessSame ==
  /\ last.fn = "istr_concat" /\ last.ok
  /\ last.ret # NULL
  /\ heap[last.ret].slen = 2
  /\ Len(heap[last.ret].s) = 2

(***************************************************************************)
(* Claims about the tile renderer, checked under SpecTile                  *)
(***************************************************************************)

\* A call of a function of the tile renderer is made in this step.
TileCall(fn) ==
  /\ err = "none"
  /\ last'.fn = fn
  /\ last' # last \/ lilac' # lilac

\* lilac_init has returned and lilac_compile has not.
TileOpen == lilac.m_state \in {STATE_INIT, STATE_TILE, STATE_PATH, STATE_LOCK}

\* A tile is in progress: lilac_begin_tile has returned more often than
\* lilac_end_tile.
TileInProgress == lilac.begun > lilac.ended

\* C30: after lilac_init the renderer takes lilac_tiles() pairs of
\* lilac_begin_tile and lilac_end_tile and no more.  lilac_begin_tile is an
\* error exactly while a tile is in progress or when lilac_tiles() tiles
\* are finished; lilac_end_tile with a tile in progress and no path or lock
\* open returns; lilac_compile with a path is an error exactly when
\* lilac_end_tile has not returned lilac_tiles() times; so init, the
\* lilac_tiles() pairs and compile run without an error.
C30_TileProtocol ==
  [][TileOpen =>
       /\ lilac.ended <= lilac.begun /\ lilac.begun <= lilac.ended + 1
       /\ lilac.begun <= lilac.m_tile_count
       /\ lilac.m_tile_count >= 1
       /\ TileCall("lilac_begin_tile") =>
            (err' = "error" <=>
               \/ TileInProgress
               \/ lilac.ended >= lilac.m_tile_count)
       /\ (TileCall("lilac_end_tile") /\ lilac.m_state = STATE_TILE) =>
            /\ err' = "none"
            /\ lilac'.ended = lilac.ended + 1
       /\ (TileCall("lilac_end_tile") /\ ~TileInProgress) =>
            err' = "error"
       /\ (TileCall("lilac_compile") /\ last'.arg # NULL) =>
            /\ err' = "error" <=>
                  \/ TileInProgress
                  \/ lilac.ended # lilac.m_tile_count
            /\ err' = "none" => lilac'.m_state = STATE_CLOSED]_vars

\* C30: lilac_compile has returned after more than one tile.
C30_Witness ==
  /\ err = "none"
  /\ last.fn = "lilac_compile" /\ last.ok
  /\ lilac.m_state = STATE_CLOSED
  /\ lilac.m_tile_count > 1
  /\ lilac.ended = lilac.m_tile_count

\* C30: lilac_begin_tile has raised an error, all tiles being finished.
C30_WitnessAllDone ==
  /\ err = "error" /\ last.fn = "lilac_begin_tile"
  /\ lilac.m_state = STATE_INIT
  /\ lilac.ended = lilac.m_tile_count

\* C30: lilac_compile has raised an error, a tile remaining to render.
C30_WitnessEarly ==
  /\ err = "error" /\ last.fn = "lilac_compile"
  /\ last.arg # NULL
  /\ lilac.m_state = STATE_INIT
  /\ lilac.ended = lilac.m_tile_count - 1

\* The functions that work on a path that is open.
PathFns == {"lilac_end_path", "lilac_line", "lilac_dot"}

\* C31: in a tile, paths and locks are bracketed and exclude each other.
\* lilac_begin_path and lilac_lock return only with a tile in progress and
\* no path and no lock open (and with that and a structure to fill they do
\* return); lilac_end_path, lilac_line and lilac_dot return only while a
\* path is open; lilac_unlock returns only while a lock is open; and
\* lilac_end_tile raises an error while a path or a lock is open.  At most
\* one path or lock is open at a time, and none outside a tile.
C31_PathsAndLocks ==
  [][/\ lilac.paths \in {0, 1} /\ lilac.locks \in {0, 1}
     /\ lilac.paths + lilac.locks <= 1
     /\ lilac.paths + lilac.locks = 1 => TileInProgress
     /\ TileCall("lilac_begin_path") =>
          (err' = "none" <=>
             /\ TileInProgress
             /\ lilac.paths = 0 /\ lilac.locks = 0)
     /\ TileCall("lilac_lock") =>
          (err' = "none" <=>
             /\ TileInProgress
             /\ lilac.paths = 0 /\ lilac.locks = 0
             /\ last'.arg # NULL)
     /\ \A fn \in PathFns :
          TileCall(fn) => (err' = "none" => lilac.paths = 1)
     /\ (TileCall("lilac_end_path") /\ lilac.paths = 1) => err' = "none"
     /\ TileCall("lilac_unlock") => (err' = "none" <=> lilac.locks = 1)
     /\ (TileCall("lilac_end_tile") /\ lilac.paths + lilac.locks = 1) =>
          err' = "error"]_vars

\* C31: lilac_end_tile has raised an error while a path was open.
C31_Witness ==
  /\ err = "error" /\ last.fn = "lilac_end_tile"
  /\ lilac.paths = 1

\* C31: lilac_begin_path has raised an error while the tile was locked.
C31_WitnessLocked ==
  /\ err = "error" /\ last.fn = "lilac_begin_path"
  /\ lilac.locks = 1

\* C31: a path was ended and the tile was locked after it.
C31_WitnessBoth ==
  /\ err = "none" /\ last.fn = "lilac_lock" /\ last.ok
  /\ lilac.locks = 1 /\ lilac.paths = 0
  /\ lilac.ended > 0

\* C32: lilac_init returns once at most, and after lilac_compile has
\* returned the renderer is closed: every further call of a function of
\* the module, lilac_init and lilac_compile among them, raises an error.
C32_OnceAndClosed ==
  [][/\ lilac.inits <= 1 /\ lilac.compiles <= 1
     /\ (TileCall("lilac_init") /\ lilac.inits = 1) => err' = "error"
     /\ lilac.compiles = 1 =>
          /\ err' = "error"
          /\ lilac' = lilac]_vars

\* C32: lilac_tiles has raised an error after lilac_compile.
C32_Witness ==
  /\ err = "error" /\ last.fn = "lilac_tiles"
  /\ lilac.compiles = 1

\* C32: a second lilac_init has raised an error in a tile.
C32_WitnessInit ==
  /\ err = "error" /\ last.fn = "lilac_init"
  /\ lilac.inits = 1 /\ lilac.compiles = 0
  /\ TileInProgress

\* The functions of the tile renderer that have raised an error after
\* lilac_compile.
C32_WitnessCompile ==
  /\ err = "error" /\ last.fn = "lilac_compile"
  /\ last.arg # NULL
  /\ lilac.compiles = 1

\* The rectangle <<x, y, w, h>> holds the pixel (px, py).
Holds(r, px, py) ==
  /\ r[1] <= px /\ px < r[1] + r[3]
  /\ r[2] <= py /\ py < r[2] + r[4]

\* Two rectangles share a pixel.
Overlap(r, q) ==
  /\ r[1] < q[1] + q[3] /\ q[1] < r[1] + r[3]
  /\ r[2] < q[2] + q[4] /\ q[2] < r[2] + r[4]

\* The rectangle lies inside the image of lilac_init.
InImage(r) ==
  /\ r[1] >= 0 /\ r[2] >= 0 /\ r[3] >= 1 /\ r[4] >= 1
  /\ r[1] + r[3] <= lilac.m_w
  /\ r[2] + r[4] <= lilac.m_h

\* The rectangle of the tile in progress, as lilac_lock reports it.
TileRect == <<lilac.m_tx, lilac.m_ty, lilac.m_tw, lilac.m_th>>

\* q comes before r in the order of rows of tiles from the top, each row
\* from the left.
RowMajorBefore(q, r) == q[2] < r[2] \/ (q[2] = r[2] /\ q[1] < r[1])

\* C33: the rectangle of every tile lies inside the image and is no wider
\* than the pitch, it shares no pixel with the rectangle of an earlier
\* tile and comes after all of them in row-major order, the rectangle
\* that lilac_lock reports is that of the tile in progress, and when all
\* tiles are finished every pixel of the image lies in exactly one of them.
C33_TilesPartition ==
  /\ TileInProgress =>
       /\ InImage(TileRect)
       /\ lilac.m_tw <= lilac.m_dim
       /\ lilac.m_dim >= LILAC_MIN_TILE /\ lilac.m_dim <= LILAC_MAX_TILE
       /\ \A q \in lilac.m_fh : ~Overlap(q, TileRect)
                                 /\ RowMajorBefore(q, TileRect)
  /\ (last.fn = "lilac_lock" /\ last.ok /\ lilac.locks = 1) =>
       /\ <<last.ret.x, last.ret.y, last.ret.w, last.ret.h>> = TileRect
       /\ last.ret.pitch = lilac.m_dim
  /\ (TileOpen /\ lilac.compiles = 0) =>
       /\ Cardinality(lilac.m_fh) = lilac.ended
       /\ \A q \in lilac.m_fh : InImage(q)
       /\ \A q, r \in lilac.m_fh : q # r => ~Overlap(q, r)
  /\ (TileOpen /\ lilac.compiles = 0
        /\ lilac.ended = lilac.m_tile_count) =>
       \A px \in 0 .. lilac.m_w - 1 : \A py \in 0 .. lilac.m_h - 1 :
         Cardinality({q \in lilac.m_fh : Holds(q, px, py)}) = 1

\* C33: the nine tiles of an image of 129 by 129 pixels with tiles of 64
\* pixels are finished.
C33_Witness ==
  /\ TileOpen /\ lilac.compiles = 0
  /\ lilac.m_w = MaxImage /\ lilac.m_h = MaxImage
  /\ lilac.m_dim = LILAC_MIN_TILE
  /\ lilac.ended = lilac.m_tile_count
  /\ lilac.m_tile_count = 9

\* C33: a tile of the last column, narrower than the pitch, is locked
\* after earlier tiles were finished.
C33_WitnessLocked ==
  /\ last.fn = "lilac_lock" /\ last.ok /\ lilac.locks = 1
  /\ last.ret.w < last.ret.pitch
  /\ last.ret.x > 0 /\ last.ret.y > 0
  /\ lilac.ended >= 2

\* C33: all the tiles of an image that is wider than high are finished.
C33_WitnessWide ==
  /\ TileOpen /\ lilac.compiles = 0
  /\ lilac.m_w > lilac.m_h
  /\ lilac.m_cols > lilac.m_rows
  /\ lilac.ended = lilac.m_tile_count

\* A call of pshade_pixel whose parameters are in order is made in this
\* step.
ShadeRequest ==
  /\ err = "none"
  /\ last'.fn = "pshade_pixel"
  /\ last' # last \/ pshade' # pshade
  /\ last'.arg[3] # "parameters"

\* C34: a request of pshade_pixel at (x, y) passes the order check exactly
\* when no request has passed it before or (y, x) is not before the
\* coordinates of the latest request that passed it, in the order of
\* scanlines from the top, each from the left; a request that does not
\* pass ends the process.
C34_ScanOrder ==
  [][ShadeRequest =>
       LET x == last'.arg[1]
           y == last'.arg[2]
       IN  /\ (last'.arg[3] # "order") <=>
                \/ ~pshade.seen
                \/ y > pshade.ay
                \/ (y = pshade.ay /\ x >= pshade.ax)
           /\ last'.arg[3] = "order" => err' = "fault"
           /\ last'.arg[3] \in {"name", "done"} =>
                pshade'.seen /\ pshade'.ax = x /\ pshade'.ay = y]_vars

\* C34: a request has gone to the left in a later scanline than the first
\* and been accepted, after a request further to the right in an earlier
\* scanline.
C34_Witness ==
  /\ err = "none" /\ last.fn = "pshade_pixel" /\ last.ok
  /\ pshade.ay = 2 /\ pshade.ax = 1
  /\ pshade.s_last_y = 2 /\ pshade.s_last_x = 1

\* C34: a request backwards in the same scanline has ended the process.
C34_WitnessBack ==
  /\ err = "fault" /\ last.fn = "pshade_pixel"
  /\ last.arg[3] = "order"
  /\ last.arg[2] = pshade.ay /\ last.arg[1] < pshade.ax

\* C34: a request in an earlier scanline, further to the right, has ended
\* the process.
C34_WitnessUp ==
  /\ err = "fault" /\ last.fn = "pshade_pixel"
  /\ last.arg[3] = "order"
  /\ last.arg[2] < pshade.ay /\ last.arg[1] > pshade.ax

\* render_go is running with an external node as the root node.
ExternalRoot ==
  /\ calls # <<>>
  /\ calls[1].fn = "render_go"
  /\ nodes[calls[1].pNode].fp = "node_external"

\* The index of the image of the root node among the external images.
RootImage == nodes[calls[1].pNode].pInstance.i

\* C35: an external node that is evaluated at the pixel offset k returns
\* the pixel at offset k of its own image, at every offset of the image,
\* the last one included: the pixels stored for the root node are those of
\* its image, in order.
C35_PixelOfImage ==
  ExternalRoot =>
    \A j \in 1..Len(raster) : raster[j] = ImagePixel(RootImage, j - 1)

\* C35: an external node has returned every pixel of an image that is
\* larger than the buffer, except the last one, which is still to come;
\* the buffer was loaded a second time.
C35_Witness ==
  /\ ExternalRoot /\ err = "none"
  /\ ext.m_plen < cfg.w * cfg.h
  /\ ext.m_offs = ext.m_plen
  /\ Len(raster) = cfg.w * cfg.h - 1
  /\ \A j \in 1..Len(raster) : raster[j] = ImagePixel(RootImage, j - 1)

\* C35: at the last offset of an image that is larger than the buffer the
\* external node has returned a pixel of the first load of the buffer.
C35_WitnessStale ==
  /\ ExternalRoot /\ err = "none"
  /\ ext.m_plen < cfg.w * cfg.h
  /\ Len(raster) = cfg.w * cfg.h
  /\ raster[Len(raster)] = ImagePixel(RootImage, Len(raster) - 1 - ext.m_plen)

\* C35: at the only offset of an image of one pixel the external node has
\* returned a pixel of another image.
C35_WitnessOnePixel ==
  /\ ExternalRoot /\ err = "none"
  /\ cfg.w * cfg.h = 1
  /\ raster = <<ImagePixel(m_count, 0)>>

\* The entries of the bank of the stack above its height: they were
\* initialised when the bank was allocated or grown, and reset by every pop
\* since.
ResetEntries ==
  IF m_st = NullVBlock THEN {}
  ELSE {m_st.pBank[k] : k \in (m_st.vcount + 1)..m_st.vcap}

\* C36: an entry of the stack that has been reset is the same as one that
\* variant_init has initialised, whatever it held, and no store of a value
\* into an entry reads or writes memory outside the entry and the string
\* objects: the process never dies of an invalid access.
C36_ResetIsInit ==
  /\ \A v \in ResetEntries : v = variant_init
  /\ err # "fault"

\* C36: an entry that held a Float or a Node has been reset by a pop and
\* still holds the high half of the value.
C36_Witness ==
  /\ err = "none"
  /\ \E v \in ResetEntries : v.vtype = VM_TYPE_UNDEF /\ v.hi # 0

\* C36: the Float 0.0, whose bits are all zero, has been pushed and popped,
\* and every reset entry is the same as an initialised one.
C36_WitnessZero ==
  /\ err = "none"
  /\ prev.fn = "vm_push_f" /\ prev.arg = 0
  /\ last.fn = "vm_pop_f" /\ last.ok
  /\ ResetEntries # {} /\ \A v \in ResetEntries : v = variant_init

\* C37: while the interpreter runs, the total height of the stack is at
\* least the height on top of the grouping stack, and the heights on the
\* grouping stack do not decrease from the bottom to the top; the visible
\* height is never negative.
C37_GroupHeights ==
  m_run = 1 =>
    /\ \A k \in 1..(m_gs.icount - 1) : m_gs.pBank[k] <= m_gs.pBank[k + 1]
    /\ m_st.vcount >= Hidden(GroupHeights)
    /\ m_st.vcount - Hidden(GroupHeights) >= 0

\* C37: a pop was refused with two groups open, the inner one begun above
\* the outer one, because the inner group hides every entry.
C37_Witness ==
  /\ m_run = 1
  /\ m_gs.icount = 2
  /\ m_gs.pBank[1] < m_gs.pBank[2]
  /\ m_st.vcount = m_gs.pBank[2]
  /\ last.fn \in {"vm_pop", "vm_pop_f"} /\ ~last.ok

\* C37: a group was ended and the outer group, begun at a lower height, is
\* on top of the grouping stack again.
C37_WitnessEnd ==
  /\ m_run = 1 /\ err = "none"
  /\ last.fn = "handleEndGroup" /\ last.ok
  /\ m_gs.icount = 1
  /\ m_st.vcount > m_gs.pBank[1]

C38_WitnessOpen ==
  /\ last.fn = "vm_run" /\ last.run = 1
  /\ last.gs = <<0>>
  /\ last.ok /\ err = "none" /\ m_run = 0
  /\ last.ret = last.st[1].val

\* The first call of vm_run, with a parser and a source, is made in this
\* step.
FirstRun ==
  /\ err = "none"
  /\ m_called = 0 /\ m_called' = 1
  /\ ~(last' # last /\ last'.fn = "vm_run" /\ last'.arg = NULL)

\* C39: with every name-limit from 0 to 16384 and every stack-height from
\* 1 to 16384, the first call of vm_run allocates the grouping stack, the
\* stack and the namespace without an error and goes on to the entities.
C39_RunInitialises ==
  [][(FirstRun /\ cfg.names \in 0..16384 /\ cfg.stack \in 1..16384) =>
       /\ err' = "none"
       /\ m_run' = 1
       /\ m_st'.vmax = cfg.stack
       /\ m_ns'.vmax = cfg.names]_vars

\* C39: with name-limit 1 vm_run has allocated its arrays and is running.
C39_Witness ==
  /\ err = "none" /\ m_run = 1
  /\ cfg.names = 1
  /\ m_st.vmax = cfg.stack /\ m_ns.vmax = 1 /\ m_ns_flag.imax = 1
  /\ m_st.vcount = 0 /\ m_ns.vcount = 0

\* C39: with name-limit 0 the first call of vm_run, with a parser and a
\* source, has raised an error before the first entity.
C39_WitnessZero ==
  /\ err = "error"
  /\ last.fn = "vm_run" /\ last.arg # NULL /\ ~last.ok
  /\ cfg.names = 0
  /\ m_called = 1 /\ m_run = 0 /\ m_st = NullVBlock

====
